---- MODULE Spec2Model ----
(***************************************************************************)
(* Model of src/src/loquace.js: the statement parser, the command          *)
(* dispatch and the script sequencing of the Loquace dialog system.        *)
(*                                                                         *)
(* JavaScript strings are TLA+ strings (Len, SubSeq and \o work on them).  *)
(* A value that may be undefined is either the string Undefined (for       *)
(* string-valued fields) or the empty tuple (for arrays and objects, a     *)
(* defined value x being <<x>>).                                           *)
(*                                                                         *)
(* The program is single-threaded.  A public call runs to completion: it   *)
(* pushes a frame of next() on `stack`, and while the stack is not empty   *)
(* only the steps of the running call are enabled.  A command handler that *)
(* calls back into next() or start() pushes a further frame.               *)
(***************************************************************************)
EXTENDS Integers, Sequences, FiniteSets, TLC

VARIABLES
    _characters,         \* the character registry, in insertion order
    _script,             \* label -> array of statements
    statements,          \* the active array of statements, or undefined
    statementCounter,    \* the cursor
    config,              \* the process-wide configuration
    registeredCommands,  \* the command table, in insertion order
    stack,               \* frames of the calls of next() in progress
    pre,                 \* history: the public call in progress or last made, and the state it started from
    log,                 \* history: what that call requested and dispatched
    outcome,             \* history: how that call ended
    run,                 \* history: the calls of next() since the last load
    heap,                \* the objects and arrays that a call of deepMerge works on
    merged               \* history: that call of deepMerge, its layers and its result

vars == <<_characters, _script, statements, statementCounter, config,
          registeredCommands, stack, pre, log, outcome, run, heap, merged>>

-----------------------------------------------------------------------------
(* Bounds *)

\* the deepest nesting of next() the model follows; one more is the
\* engine's "Maximum call stack size exceeded"
MaxDepth == 3

-----------------------------------------------------------------------------
(* JavaScript values *)

Undefined == "<undefined>"
None == <<>>
Some(x) == <<x>>

\* the errors a call can end with
NoError == "none"
ExpressionNotFound == "Error: Expression not found for character"
CharacterNotFound == "Error: Character not found"
TypeError == "TypeError"
HandlerError == "Error thrown by a command handler"
RangeError == "RangeError: Maximum call stack size exceeded"

\* \w of the regular expressions
WordChars ==
    {"a","b","c","d","e","f","g","h","i","j","k","l","m","n","o","p","q",
     "r","s","t","u","v","w","x","y","z",
     "A","B","C","D","E","F","G","H","I","J","K","L","M","N","O","P","Q",
     "R","S","T","U","V","W","X","Y","Z",
     "0","1","2","3","4","5","6","7","8","9","_"}

\* \s of the regular expressions
Whitespace == {" ", "\t", "\n", "\r", "\f"}

CharAt(s, i) == SubSeq(s, i, i)

\* s without its first n characters
Drop(s, n) == SubSeq(s, n + 1, Len(s))

StartsWith(s, p) == Len(p) <= Len(s) /\ SubSeq(s, 1, Len(p)) = p

\* the length of the longest run of \w characters of s that starts at i
WordRun(s, i) ==
    CHOOSE n \in 0..(Len(s) + 1 - i) :
        /\ \A j \in i..(i + n - 1) : CharAt(s, j) \in WordChars
        /\ (i + n > Len(s) \/ CharAt(s, i + n) \notin WordChars)

\* the length of the longest run of \s characters of s that starts at i
SpaceRun(s, i) ==
    CHOOSE n \in 0..(Len(s) + 1 - i) :
        /\ \A j \in i..(i + n - 1) : CharAt(s, j) \in Whitespace
        /\ (i + n > Len(s) \/ CharAt(s, i + n) \notin Whitespace)

\* the length of the longest run of \S characters of s that starts at i
NonSpaceRun(s, i) ==
    CHOOSE n \in 0..(Len(s) + 1 - i) :
        /\ \A j \in i..(i + n - 1) : CharAt(s, j) \notin Whitespace
        /\ (i + n > Len(s) \/ CharAt(s, i + n) \in Whitespace)

-----------------------------------------------------------------------------
(* Statements: a string, an array of alternatives, or an object *)

Str(s) == [type |-> "string", statement |-> s]
Alts(a) == [type |-> "array", alts |-> a]
Obj(s) == [type |-> "object", statement |-> s]

-----------------------------------------------------------------------------
(* The registries *)

\* const registeredCommands = { enableNextPrompt: null, disableNextPrompt: null }
\* an entry is a key and its value; null is the value "null"
Null == "null"

CommandKeys == {registeredCommands[j].key : j \in DOMAIN registeredCommands}

\* registeredCommands[command], undefined when the key is absent
CommandValue(command) ==
    IF command \in CommandKeys
    THEN (CHOOSE e \in {registeredCommands[j] : j \in DOMAIN registeredCommands} :
              e.key = command).callback
    ELSE Undefined

\* what a registered callback does when it is invoked
Callbacks == {"log", "next", "start", "throw", "showPrompt", "hidePrompt"}

\* the label a callback of kind "start" starts
CallbackLabel == "finish"

CharacterKeys == {_characters[j].key : j \in DOMAIN _characters}

\* _characters[key], for a registered key
Character(key) ==
    CHOOSE c \in {_characters[j] : j \in DOMAIN _characters} : c.key = key

\* Object.assign(target, source) on objects kept as sequences of entries:
\* a key of the source replaces the value of the same key in place, a new
\* key is appended
RECURSIVE Assign(_, _)
Assign(target, source) ==
    IF source = <<>> THEN target
    ELSE LET e == Head(source)
             at == {j \in DOMAIN target : target[j].key = e.key}
             t == IF at = {} THEN Append(target, e)
                  ELSE [target EXCEPT ![CHOOSE j \in at : TRUE] = e]
         IN Assign(t, Tail(source))

-----------------------------------------------------------------------------
(* parse(statement, false) *)

\* const dialogObject = { originalStatement: statement, statement: "", commands: [] }
\* `error` is the error parseDialog throws, NoError when it returns
NewDialogObject(statement) ==
    [originalStatement |-> statement, statement |-> "", commands |-> <<>>,
     who |-> Undefined, expression |-> Undefined, sideImage |-> Undefined,
     error |-> NoError]

\* the dialog objects preSelectStatement can leave: choose() picks any
\* element of an array of alternatives
preSelectStatement(dialogObject) ==
    LET statement == dialogObject.originalStatement
    IN IF statement.type = "array"
       THEN {[dialogObject EXCEPT !.statement = statement.alts[j]] :
                 j \in DOMAIN statement.alts}
       ELSE {[dialogObject EXCEPT !.statement = statement.statement]}

\* mutant: the command is put at the front of the list
unshift(commands, command) == <<command>> \o commands

\* dialogObject.commands.push(commandMatch[1])
push(commands, command) == Append(commands, command)

RECURSIVE parseCommands(_)
parseCommands(dialogObject) ==
    LET s == dialogObject.statement
        n == WordRun(s, 1)                  \* /^(\w+)/
        commandMatch == SubSeq(s, 1, n)
    IN IF n >= 1 /\ commandMatch \in CommandKeys
       THEN parseCommands(
                [dialogObject EXCEPT
                    !.commands = push(@, commandMatch),
                    \* replace(/^\w+\s*/, "")
                    !.statement = Drop(s, n + SpaceRun(s, n + 1))])
       ELSE dialogObject

\* /^(\w+):(\S+)\s/ matches s
ColonMatch(s) ==
    LET n == WordRun(s, 1)
        m == NonSpaceRun(s, n + 2)
    IN /\ n >= 1
       /\ n + 1 <= Len(s) /\ CharAt(s, n + 1) = ":"
       /\ m >= 1
       /\ n + 1 + m < Len(s)

\* the first key of _characters, in its order, such that s starts with
\* the key and a space; None when there is none
FirstKeyMatch(s) ==
    LET at == {j \in DOMAIN _characters : StartsWith(s, _characters[j].key \o " ")}
    IN IF at = {} THEN None
       ELSE Some(_characters[CHOOSE j \in at : \A k \in at : j <= k].key)

\* the properties every object literal inherits from Object.prototype: a
\* lookup of one of these names in an object that has no such key of its
\* own gives the inherited value, a function or an object
ObjectPrototype ==
    {"constructor", "toString", "valueOf", "hasOwnProperty", "isPrototypeOf",
     "propertyIsEnumerable", "toLocaleString", "__proto__"}
Inherited == "<inherited from Object.prototype>"

\* object[key]
Lookup(object, key) ==
    IF key \in DOMAIN object THEN object[key]
    ELSE IF key \in ObjectPrototype THEN Inherited
    ELSE Undefined

\* a string value that is neither undefined nor ""
Truthy(v) == v \notin {Undefined, ""}

\* mutant: the guard of lines 342-345 lets every expression through
ExpressionMissingNever(expressions, expression) == FALSE

\* !_characters[who].expressions[expression]
ExpressionMissing(expressions, expression) == ~Truthy(Lookup(expressions, expression))

\* lines 341-352: the expression's side image, or the error thrown
ResolveExpression(dialogObject) ==
    IF dialogObject.expression = Undefined
    THEN [dialogObject EXCEPT !.sideImage = Undefined]
    ELSE IF dialogObject.who \notin CharacterKeys
    THEN [dialogObject EXCEPT !.error = TypeError]   \* _characters[who] is undefined
    ELSE LET expressions == Character(dialogObject.who).expressions
         IN IF expressions = None
            THEN [dialogObject EXCEPT !.error = TypeError]  \* .expressions is undefined
            ELSE IF ExpressionMissing(expressions[1], dialogObject.expression)
            THEN [dialogObject EXCEPT !.error = ExpressionNotFound]
            ELSE [dialogObject EXCEPT
                     !.sideImage = IF Truthy(dialogObject.expression)
                                   THEN Lookup(expressions[1], dialogObject.expression)
                                   ELSE Undefined]

\* mutant: parseDialog does not return early
OnlyCommandsNever(dialogObject) == FALSE

\* if (dialogObject.statement === "") return
OnlyCommands(dialogObject) == dialogObject.statement = ""

\* mutant: replace(/^(\w+):(\S+)\s/, ""), one whitespace character removed
ColonRestOne(s, n, m) == Drop(s, n + 1 + m + 1)

\* replace(/^(\w+):(\S+)\s*/, ""): s without the speaker, the expression
\* and the whole run of whitespace after them
ColonRest(s, n, m) == Drop(s, n + 1 + m + SpaceRun(s, n + m + 2))

\* mutant: the default expression is never used
DefaultExpressionNever(character) == Undefined

\* if (_characters[who].defaultExpression) expression = defaultExpression
DefaultExpression(character) ==
    IF Truthy(character.defaultExpression) THEN character.defaultExpression
    ELSE Undefined

\* mutant: a statement without a speaker has no speaker
DefaultSpeakerNone == Undefined

\* dialogObject.who = "narrator"
DefaultSpeaker == "narrator"

\* mutant: the character keys are tried whatever the colon form matched
WhoUndefinedAlways(dialogObject) == TRUE

\* if (dialogObject.who === undefined)
WhoUndefined(dialogObject) == dialogObject.who = Undefined

\* lines 306-314: `who:expression string`
matchColon(dialogObject) ==
    LET s == dialogObject.statement
        n == WordRun(s, 1)
        m == NonSpaceRun(s, n + 2)
    IN IF ColonMatch(s)
       THEN [dialogObject EXCEPT
                !.who = SubSeq(s, 1, n),
                !.expression = SubSeq(s, n + 2, n + 1 + m),
                !.statement = ColonRest(s, n, m)]
       ELSE dialogObject

\* lines 319-334: the first word is the key of a character
matchKey(dialogObject) ==
    LET s == dialogObject.statement
    IN IF WhoUndefined(dialogObject) /\ FirstKeyMatch(s) # None
       THEN LET key == FirstKeyMatch(s)[1]
            IN [dialogObject EXCEPT
                   !.who = key,
                   !.expression =
                       IF DefaultExpression(Character(key)) # Undefined
                       THEN DefaultExpression(Character(key)) ELSE @,
                   \* replace(key + " ", "")
                   !.statement = Drop(s, Len(key) + 1)]
       ELSE dialogObject

\* lines 337-339: still no match, the narrator speaks
matchNarrator(dialogObject) ==
    IF dialogObject.who = Undefined
    THEN [dialogObject EXCEPT !.who = DefaultSpeaker]
    ELSE dialogObject

parseDialog(dialogObject) ==
    IF OnlyCommands(dialogObject) THEN dialogObject
    ELSE ResolveExpression(matchNarrator(matchKey(matchColon(dialogObject))))

\* mutant: the speaker is taken off the statement before the commands
StagesDialogFirst(dialogObject) == parseCommands(parseDialog(dialogObject))

\* parseCommands(dialogObject); parseDialog(dialogObject), lines 238-239
Stages(dialogObject) == parseDialog(parseCommands(dialogObject))

\* the dialog objects parse(statement, false) can return or fail with
parse(statement) ==
    {Stages(d) : d \in preSelectStatement(NewDialogObject(statement))}

-----------------------------------------------------------------------------
(* Configuration trees and deepMerge *)

\* A value is a scalar or a reference to a node of a heap; a node is an
\* object, a sequence of properties in insertion order, or an array, a
\* sequence of values.  A tree is the same with the nodes in place of the
\* references: what a value is deep-equal to.
String(s) == [type |-> "string", v |-> s]
Number(n) == [type |-> "number", v |-> n]
Boolean(b) == [type |-> "boolean", v |-> b]
UndefinedValue == [type |-> "undefined", v |-> Undefined]
Ref(at) == [type |-> "ref", at |-> at]
Property(key, value) == [key |-> key, value |-> value]
Object(entries) == [type |-> "object", entries |-> entries]
Array(entries) == [type |-> "array", entries |-> entries]

\* getType(obj)
getType(h, value) == IF value.type = "ref" THEN h[value.at].type ELSE value.type

\* clone[key], undefined when the object has no such property
Get(h, at, key) ==
    LET found == {j \in DOMAIN h[at].entries : h[at].entries[j].key = key}
    IN IF found = {} THEN UndefinedValue
       ELSE h[at].entries[CHOOSE j \in found : TRUE].value

\* clone[key] = value: the node at `at` is changed in place
Set(h, at, key, value) ==
    LET found == {j \in DOMAIN h[at].entries : h[at].entries[j].key = key}
    IN IF found = {}
       THEN [h EXCEPT ![at].entries = Append(@, Property(key, value))]
       ELSE [h EXCEPT ![at].entries[CHOOSE j \in found : TRUE].value = value]

\* mutant: the arrays are merged by index, the later layer first
ConcatByIndex(a, b) ==
    [j \in 1..(IF Len(a) > Len(b) THEN Len(a) ELSE Len(b)) |->
        IF j <= Len(b) THEN b[j] ELSE a[j]]

\* [...clone, ...structuredClone(obj)]
Concat(a, b) == a \o b

\* if (getType(clone) !== type): the layer replaces the clone
ReplaceByType(cloneType, type) == cloneType # type

RECURSIVE structuredClone(_, _)
RECURSIVE cloneEntries(_, _, _)
RECURSIVE deepMerge(_, _)
RECURSIVE mergeLayers(_, _, _)
RECURSIVE mergeObj(_, _, _)

\* the entries of a node of the given type, each value cloned in turn
cloneEntries(h, type, entries) ==
    IF entries = <<>> THEN [heap |-> h, entries |-> <<>>]
    ELSE LET e == Head(entries)
             c == structuredClone(h, IF type = "object" THEN e.value ELSE e)
             rest == cloneEntries(c.heap, type, Tail(entries))
         IN [entries |-> <<IF type = "object" THEN Property(e.key, c.value)
                           ELSE c.value>> \o rest.entries,
             heap |-> rest.heap]

\* structuredClone(value): a scalar as it is; of a node, a new node whose
\* values are clones.  It gives the heap it leaves and the value.
structuredClone(h, value) ==
    IF value.type # "ref" THEN [heap |-> h, value |-> value]
    ELSE LET c == cloneEntries(h, h[value.at].type, h[value.at].entries)
         IN [heap |-> Append(c.heap, [type |-> h[value.at].type, entries |-> c.entries]),
             value |-> Ref(Len(c.heap) + 1)]

\* mutant: clone[key] = value, the value of the layer itself
AssignValue(h, value) == [heap |-> h, value |-> value]

\* clone[key] = structuredClone(value), line 730
CloneValue(h, value) == structuredClone(h, value)

\* lines 723-727: the property of the clone and the value of the layer are
\* two objects, or two arrays
SameContainer(h, clone, key, value) ==
    /\ Get(h, clone.at, key) # UndefinedValue
    /\ getType(h, Get(h, clone.at, key)) = getType(h, value)
    /\ getType(h, value) \in {"array", "object"}

\* mergeObj(clone, obj), lines 720-733, over the entries of obj that are
\* left; it gives the heap it leaves
mergeObj(h, clone, entries) ==
    IF entries = <<>> THEN h
    ELSE LET key == Head(entries).key
             value == Head(entries).value
         IN IF SameContainer(h, clone, key, value)
            THEN LET r == deepMerge(h, <<Get(h, clone.at, key), value>>)
                 IN mergeObj(Set(r.heap, clone.at, key, r.value), clone, Tail(entries))
            ELSE LET r == CloneValue(h, value)
                 IN mergeObj(Set(r.heap, clone.at, key, r.value), clone, Tail(entries))

\* the loop of lines 739-757 over the layers that are left
mergeLayers(h, clone, objs) ==
    IF objs = <<>> THEN [heap |-> h, value |-> clone]
    ELSE LET obj == Head(objs)
             type == getType(h, obj)
         IN IF ReplaceByType(getType(h, clone), type)
            THEN LET c == structuredClone(h, obj)
                 IN mergeLayers(c.heap, c.value, Tail(objs))
            ELSE IF type = "array"
            THEN LET c == structuredClone(h, obj)
                     array == Array(Concat(c.heap[clone.at].entries,
                                           c.heap[c.value.at].entries))
                 IN mergeLayers(Append(c.heap, array), Ref(Len(c.heap) + 1), Tail(objs))
            ELSE IF type = "object"
            THEN mergeLayers(mergeObj(h, clone, h[obj.at].entries), clone, Tail(objs))
            ELSE mergeLayers(h, obj, Tail(objs))

\* deepMerge(...objs), lines 706-760: it gives the heap it leaves and the
\* value it returns
deepMerge(h, objs) ==
    LET c == structuredClone(h, objs[1])
    IN mergeLayers(c.heap, c.value, Tail(objs))

\* the tree that a value is deep-equal to
RECURSIVE Read(_, _)
Read(h, value) ==
    IF value.type # "ref" THEN value
    ELSE LET node == h[value.at]
         IN [type |-> node.type,
             entries |-> [j \in DOMAIN node.entries |->
                 IF node.type = "object"
                 THEN Property(node.entries[j].key, Read(h, node.entries[j].value))
                 ELSE Read(h, node.entries[j])]]

\* the evaluation of an object or array literal: the nodes of the tree are
\* allocated.  It gives the heap it leaves and the value.
RECURSIVE Literal(_, _)
RECURSIVE literalEntries(_, _, _)
literalEntries(h, type, entries) ==
    IF entries = <<>> THEN [heap |-> h, entries |-> <<>>]
    ELSE LET e == Head(entries)
             c == Literal(h, IF type = "object" THEN e.value ELSE e)
             rest == literalEntries(c.heap, type, Tail(entries))
         IN [entries |-> <<IF type = "object" THEN Property(e.key, c.value)
                           ELSE c.value>> \o rest.entries,
             heap |-> rest.heap]

Literal(h, tree) ==
    IF tree.type \notin {"object", "array"} THEN [heap |-> h, value |-> tree]
    ELSE LET c == literalEntries(h, tree.type, tree.entries)
         IN [heap |-> Append(c.heap, [type |-> tree.type, entries |-> c.entries]),
             value |-> Ref(Len(c.heap) + 1)]

\* the values of a sequence of literals, evaluated one after the other
RECURSIVE Literals(_, _)
Literals(h, trees) ==
    IF trees = <<>> THEN [heap |-> h, values |-> <<>>]
    ELSE LET c == Literal(h, Head(trees))
             rest == Literals(c.heap, Tail(trees))
         IN [values |-> <<c.value>> \o rest.values, heap |-> rest.heap]

\* the nodes that can be reached from a value
RECURSIVE Reachable(_, _)
Reachable(h, value) ==
    IF value.type # "ref" THEN {}
    ELSE {value.at} \cup
         UNION {Reachable(h, IF h[value.at].type = "object"
                             THEN h[value.at].entries[j].value
                             ELSE h[value.at].entries[j]) :
                    j \in DOMAIN h[value.at].entries}

\* deepMerge of trees: the tree of what deepMerge returns for the values of
\* these literals
deepMergeTrees(trees) ==
    LET args == Literals(<<>>, trees)
        r == deepMerge(args.heap, args.values)
    IN Read(r.heap, r.value)

\* the property `key` of an object tree, undefined when it has none or
\* when the tree is no object
Field(tree, key) ==
    IF tree.type # "object" THEN UndefinedValue
    ELSE LET found == {j \in DOMAIN tree.entries : tree.entries[j].key = key}
         IN IF found = {} THEN UndefinedValue
            ELSE tree.entries[CHOOSE j \in found : TRUE].value

\* tree.a.b.c for the path <<a, b, c>>, undefined as soon as a step is
RECURSIVE At(_, _)
At(tree, path) ==
    IF path = <<>> THEN tree ELSE At(Field(tree, Head(path)), Tail(path))

\* config.pop, lines 52-91
PopDefaults ==
    Object(<<
        Property("position", String("topleft")),
        Property("sideImage", Object(<<
            Property("options", Object(<<Property("width", Number(60))>>))>>)),
        Property("textBox", Object(<<
            Property("width", Number(450)),
            Property("margin", Number(20)),
            Property("padding", Object(<<
                Property("top", Number(15)), Property("right", Number(20)),
                Property("bottom", Number(15)), Property("left", Number(20))>>)),
            Property("options", Object(<<Property("radius", Number(15))>>))>>)),
        Property("dialogText", Object(<<
            Property("offsetX", Number(1)),
            Property("options", Object(<<
                Property("size", Number(20)),
                Property("letterSpacing", Number(10)),
                Property("lineSpacing", Number(10)),
                Property("width", Number(350))>>))>>)),
        Property("nextPrompt", Object(<<
            Property("name", String("right-arrow")),
            Property("options", Object(<<Property("width", Number(20))>>))>>)),
        Property("doTween", Boolean(TRUE))>>)

\* config.vn, lines 94-132
VnDefaults ==
    Object(<<
        Property("sideImage", Object(<<
            Property("options", Object(<<Property("width", Number(120))>>))>>)),
        Property("textBox", Object(<<
            Property("margin", Number(20)),
            Property("padding", Object(<<
                Property("top", Number(15)), Property("right", Number(20)),
                Property("bottom", Number(15)), Property("left", Number(20))>>)),
            Property("options", Object(<<Property("radius", Number(15))>>))>>)),
        Property("dialogText", Object(<<
            Property("offsetX", Number(1)),
            Property("options", Object(<<
                Property("size", Number(20)),
                Property("letterSpacing", Number(0)),
                Property("lineSpacing", Number(10))>>))>>)),
        Property("nextPrompt", Object(<<
            Property("name", String("right-arrow")),
            Property("options", Object(<<Property("width", Number(20))>>))>>)),
        Property("doTween", Boolean(TRUE))>>)

\* the object literal that README.md passes to init() as `pop`, lines 73-76
ReadmePop ==
    Object(<<Property("position", String("center")),
             Property("doTween", Boolean(FALSE))>>)

\* an object passed to init() as `vn` that names one nested option
BigSideImage ==
    Object(<<Property("sideImage", Object(<<
                 Property("options", Object(<<Property("width", Number(200))>>))>>))>>)

\* the object tree with the value at the path replaced
RECURSIVE With(_, _, _)
With(tree, path, value) ==
    IF path = <<>> THEN value
    ELSE Object([j \in DOMAIN tree.entries |->
             IF tree.entries[j].key = Head(path)
             THEN Property(Head(path), With(tree.entries[j].value, Tail(path), value))
             ELSE tree.entries[j]])

\* an object passed to init() as `pop`: the whole of the built-in one,
\* with a radius for each corner of the text box
RoundedPop ==
    With(PopDefaults, <<"textBox", "options", "radius">>,
         Array(<<Number(15), Number(15), Number(0), Number(0)>>))

\* The objects that config.pop and config.vn can be.  No code writes into
\* one of them: deepMerge works on a clone of its first argument (line 736)
\* and init() replaces the property as a whole (line 147).  So config keeps
\* which object each of the two is, and ConfigObject gives its tree.
ConfigObject(object) ==
    CASE object = "PopDefaults" -> PopDefaults
      [] object = "VnDefaults" -> VnDefaults
      [] object = "ReadmePop" -> ReadmePop
      [] object = "BigSideImage" -> BigSideImage
      [] object = "RoundedPop" -> RoundedPop

\* const config = { ... }, lines 48-133
ConfigDefaults == [showNextPrompt |-> TRUE, pop |-> "PopDefaults", vn |-> "VnDefaults"]

\* a string of the program as a value of a tree
Value(s) == IF s = Undefined THEN UndefinedValue ELSE String(s)

\* mutant: the options of the character come before its shorthand
LayersOptionsFirst(defaults, character, options) == <<defaults, options, character>>

\* the arguments of deepMerge in displayDialog, in the order of the call
Layers(defaults, character, options) == <<defaults, character, options>>

-----------------------------------------------------------------------------
(* Inputs *)

\* _characters.narrator = { dialogType: "vn" }
Narrator ==
    [key |-> "narrator", name |-> Undefined, expressions |-> None,
     defaultExpression |-> Undefined, dialogType |-> "vn",
     position |-> Undefined, dialogOptions |-> None]

\* the character r of the README and of the demo
Robot ==
    [key |-> "r", name |-> "Robot", expressions |-> Some([happy |-> "bean"]),
     defaultExpression |-> "happy", dialogType |-> Undefined,
     position |-> Undefined, dialogOptions |-> None]

\* the arguments of characters()
CharacterInputs == {<<Robot>>}

\* the arrays of statements passed to script(), as such or under a label
SeqHello == <<Str("Hello world"), Alts(<<"r Hi", "r:happy Hello">>), Obj("sayHi Bye")>>
SeqBegin == <<Str("sayHi disableNextPrompt r Hi"), Str("enableNextPrompt sayHi"),
              Str("Loquace is awesome!")>>
SeqQuick == <<Str("disableNextPrompt sayHi Quick"), Str("r:angry Hi"), Str("Bye")>>
SeqEmpty == <<>>

ArrayInputs == {SeqHello, SeqBegin, SeqQuick, SeqEmpty}

\* the objects of labels passed to script()
LabelInputs ==
    {[begin |-> SeqHello], [begin |-> SeqBegin, finish |-> SeqQuick]}

\* the labels passed to start(); "missing" is never defined
StartInputs == {"begin", "finish", "missing"}

\* the arguments of registerCommand()
RegisterInputs ==
    {<<"sayHi", "log">>, <<"sayHi", "next">>, <<"sayHi", "start">>,
     <<"sayHi", "throw">>, <<"disableNextPrompt", "showPrompt">>,
     <<"enableNextPrompt", "hidePrompt">>}

\* the options passed to init()
InitInputs == {[showNextPrompt |-> FALSE], [showNextPrompt |-> TRUE]}

-----------------------------------------------------------------------------
(* The state after the module is loaded *)

\* no call of deepMerge is followed
NoMerge == [layers |-> <<>>, before |-> <<>>, result |-> None, written |-> 0]

\* the state of the module once it is loaded, lines 43-144
Loaded ==
    /\ _characters = <<Narrator>>
    /\ _script = <<>>
    /\ statements = None
    /\ statementCounter = 0
    /\ config = ConfigDefaults
    /\ registeredCommands = <<[key |-> "enableNextPrompt", callback |-> Null],
                              [key |-> "disableNextPrompt", callback |-> Null]>>
    /\ stack = <<>>
    /\ pre = [op |-> "load", arg |-> "", auto |-> FALSE, statements |-> None,
              statementCounter |-> 0, config |-> ConfigDefaults]
    /\ log = <<>>
    /\ outcome = [status |-> "returned", value |-> FALSE, error |-> NoError]
    /\ run = [auto |-> FALSE, label |-> Undefined, bound |-> None, calls |-> 0,
              clean |-> TRUE]

Init ==
    /\ Loaded
    /\ heap = <<>>
    /\ merged = NoMerge

-----------------------------------------------------------------------------
(* Helpers of the actions *)

\* Object.assign(target, source) on objects kept as functions of their keys
ObjectAssign(target, source) ==
    [k \in DOMAIN target \cup DOMAIN source |->
        IF k \in DOMAIN source THEN source[k] ELSE target[k]]

\* mutant: _script[label] || []
ScriptAtOrEmpty(label) ==
    IF label \in DOMAIN _script THEN Some(_script[label]) ELSE Some(<<>>)

\* _script[label]
ScriptAt(label) ==
    IF label \in DOMAIN _script THEN Some(_script[label]) ELSE None

\* mutant: the active sequence is looked up by its label
ActiveAfterDefineByLabel(stmts, s) ==
    IF run.label \in DOMAIN s THEN Some(s[run.label]) ELSE stmts

\* `statements` after script(s) with an object of labels s: the else branch
\* assigns _script only
ActiveAfterDefine(stmts, s) == stmts

\* mutant: _script = s
ScriptReplace(target, source) == source

\* Object.assign(_script, s), line 187
ScriptAssign(target, source) == ObjectAssign(target, source)

\* mutant: the counter is left where it was
ResetCounterKept(counter) == counter

\* statementCounter = 0, lines 182 and 198
ResetCounter(counter) == 0

\* mutant: the counter goes back when a callback throws
CounterAfterHandlerThrowRestored(counter) == counter - 1

\* the counter when a callback throws: executeCommands comes after the
\* increment, and nothing catches the error
CounterAfterHandlerThrow(counter) == counter

\* mutant: the built-in commands take effect as they are collected
RECURSIVE ConfigAfterParseApplied(_, _)
ConfigAfterParseApplied(conf, dialogObject) ==
    IF dialogObject.commands = <<>> THEN conf
    ELSE ConfigAfterParseApplied(
             IF Head(dialogObject.commands) \in {"enableNextPrompt", "disableNextPrompt"}
             THEN [conf EXCEPT !.showNextPrompt =
                       Head(dialogObject.commands) = "enableNextPrompt"]
             ELSE conf,
             [dialogObject EXCEPT !.commands = Tail(@)])

\* config after parse(statement, false): parseCommands collects the
\* commands "for deferred execution" (line 291) and executes none
ConfigAfterParse(conf, dialogObject) == conf

\* if (!statements)
Idle(stmts) == stmts = None

\* if (statementCounter > statements.length - 1)
Exhausted(stmts, counter) == counter > Len(stmts[1]) - 1

\* mutant: the increment is missing when the commands are executed
NextCounterStuck(counter) == counter

\* mutant: the counter skips a statement
NextCounterTwice(counter) == counter + 2

\* statementCounter++
NextCounter(counter) == counter + 1

\* mutant: parse(statements[statementCounter++], false)
CounterAfterThrowConsumed(counter) == counter + 1

\* the counter when parse() throws: the increment comes after the parse
CounterAfterThrow(counter) == counter

\* typeof registeredCommands[command] === "function"
IsFunction(callback) == callback \in Callbacks

\* mutant: a registered callback replaces the built-in effect
BuiltinAppliesUnlessOverridden(command, callback) ==
    command \in {"enableNextPrompt", "disableNextPrompt"} /\ callback \notin Callbacks

\* the built-in effect is applied whatever registeredCommands[command] is
BuiltinApplies(command, callback) ==
    command \in {"enableNextPrompt", "disableNextPrompt"}

\* mutant: the two built-in effects are swapped
BuiltinFlagSwapped(command) == command = "disableNextPrompt"

\* the value a built-in command gives config.showNextPrompt
BuiltinFlag(command) == command = "enableNextPrompt"

Depth == Len(stack)
Top == stack[Depth]

\* a frame of next() that has not run yet; via is who called it: the
\* caller of the public call, or the callback of a command
\*   pc   where the frame is
\*   obj  the dialog object it parsed
\*   ci   the index in obj.commands of the command being executed
\*   i    the value of the counter that it parsed the statement at
\*   re   how many times the callbacks of its commands called next() or start()
NewFrame(via) ==
    [pc |-> "next", via |-> via, obj |-> NewDialogObject(Str("")), ci |-> 0,
     i |-> 0, re |-> 0]

\* the record of a public call as it starts
Snapshot(op, arg, auto) ==
    [op |-> op, arg |-> arg, auto |-> auto, statements |-> statements,
     statementCounter |-> statementCounter, config |-> config]

Running == [status |-> "running", value |-> FALSE, error |-> NoError]
Returned(v) == [status |-> "returned", value |-> v, error |-> NoError]
Threw(e) == [status |-> "threw", value |-> FALSE, error |-> e]

\* an uncaught error unwinds every frame to the caller of the public call
Throw(e) ==
    /\ stack' = <<>>
    /\ outcome' = Threw(e)

\* `return v` of the running next()
Return(v) ==
    /\ stack' = SubSeq(stack, 1, Depth - 1)
    /\ outcome' = IF Depth = 1 THEN Returned(v) ELSE outcome

-----------------------------------------------------------------------------
(* The public calls.  Each is made when no call is running. *)

\* init(options): Object.assign(config, options); loadAssets()
init(options) ==
    /\ stack = <<>>
    /\ UNCHANGED <<heap, merged>>
    /\ pre' = Snapshot("init", "", FALSE)
    /\ config' = ObjectAssign(config, options)
    /\ log' = <<>>
    /\ outcome' = Returned(FALSE)
    /\ UNCHANGED <<_characters, _script, statements, statementCounter,
                   registeredCommands, stack, run>>

\* characters(c): Object.assign(_characters, c)
characters(c) ==
    /\ stack = <<>>
    /\ UNCHANGED <<heap, merged>>
    /\ pre' = Snapshot("characters", "", FALSE)
    /\ _characters' = Assign(_characters, c)
    /\ log' = <<>>
    /\ outcome' = Returned(FALSE)
    /\ UNCHANGED <<_script, statements, statementCounter, config,
                   registeredCommands, stack, run>>

\* registerCommand(command, callback)
registerCommand(command, callback) ==
    /\ stack = <<>>
    /\ UNCHANGED <<heap, merged>>
    /\ pre' = Snapshot("registerCommand", command, FALSE)
    /\ registeredCommands' =
           Assign(registeredCommands, <<[key |-> command, callback |-> callback]>>)
    /\ log' = <<>>
    /\ outcome' = Returned(FALSE)
    /\ UNCHANGED <<_characters, _script, statements, statementCounter, config,
                   stack, run>>

\* script(s, auto): s is [array |-> a] for an array and [object |-> o] for
\* an object of labels
script(s, auto) ==
    /\ stack = <<>>
    /\ UNCHANGED <<heap, merged>>
    /\ pre' = Snapshot("script", IF "array" \in DOMAIN s THEN "array" ELSE "object", auto)
    /\ log' = <<>>
    /\ \/ /\ "array" \in DOMAIN s                 \* Array.isArray(s)
          /\ statements' = Some(s.array)
          /\ statementCounter' = ResetCounter(statementCounter)
          /\ run' = [auto |-> auto, label |-> Undefined, bound |-> Some(s.array),
                     calls |-> 0, clean |-> TRUE]
          /\ IF auto
             THEN stack' = <<NewFrame("caller")>> /\ outcome' = Running
             ELSE stack' = <<>> /\ outcome' = Returned(FALSE)
          /\ UNCHANGED _script
       \/ /\ "object" \in DOMAIN s
          /\ _script' = ScriptAssign(_script, s.object)
          /\ statements' = ActiveAfterDefine(statements, s.object)
          /\ outcome' = Returned(FALSE)
          /\ UNCHANGED <<statementCounter, stack, run>>
    /\ UNCHANGED <<_characters, config, registeredCommands>>

\* start(label, auto)
start(label, auto) ==
    /\ stack = <<>>
    /\ UNCHANGED <<heap, merged>>
    /\ pre' = Snapshot("start", label, auto)
    /\ log' = <<>>
    /\ statements' = ScriptAt(label)
    /\ statementCounter' = ResetCounter(statementCounter)
    /\ run' = [auto |-> auto, label |-> label,
               bound |-> IF label \in DOMAIN _script THEN Some(_script[label]) ELSE None,
               calls |-> 0, clean |-> TRUE]
    /\ IF auto
       THEN stack' = <<NewFrame("caller")>> /\ outcome' = Running
       ELSE stack' = <<>> /\ outcome' = Returned(FALSE)
    /\ UNCHANGED <<_characters, _script, config, registeredCommands>>

\* the caller calls next()
callNext ==
    /\ stack = <<>>
    /\ UNCHANGED <<heap, merged>>
    /\ pre' = Snapshot("next", "", FALSE)
    /\ log' = <<>>
    /\ stack' = <<NewFrame("caller")>>
    /\ outcome' = Running
    /\ run' = [run EXCEPT !.calls =
                   IF statements # None /\ @ <= Len(statements[1]) THEN @ + 1 ELSE @]
    /\ UNCHANGED <<_characters, _script, statements, statementCounter, config,
                   registeredCommands>>

-----------------------------------------------------------------------------
(* The steps of a running call *)

\* mutant: no clear() when there are no more statements
nextExhaustedNoClear ==
    /\ Return(FALSE)
    /\ UNCHANGED <<statementCounter, log, run>>

\* mutant: the sequence starts over when there are no more statements
nextExhaustedRewind ==
    /\ log' = Append(log, [e |-> "clear", d |-> Depth])
    /\ Return(FALSE)
    /\ statementCounter' = 0
    /\ UNCHANGED run

\* next(), lines 207-211: no more statements
nextExhausted ==
    /\ log' = Append(log, [e |-> "clear", d |-> Depth])
    /\ Return(FALSE)
    /\ UNCHANGED <<statementCounter, run>>

\* next(), lines 203-220: up to the increment of the counter
next ==
    /\ stack # <<>> /\ Top.pc = "next"
    /\ UNCHANGED <<heap, merged>>
    /\ UNCHANGED <<_characters, _script, statements, config, registeredCommands, pre>>
    /\ IF Idle(statements)
       THEN /\ Return(FALSE)
            /\ UNCHANGED <<statementCounter, log, run>>
       ELSE IF Exhausted(statements, statementCounter)
       THEN nextExhausted
       ELSE \E dialogObject \in parse(statements[1][statementCounter + 1]) :
            /\ log' = log \o <<[e |-> "clear", d |-> Depth],
                               [e |-> "parse", d |-> Depth, i |-> statementCounter,
                                obj |-> dialogObject]>>
            /\ IF dialogObject.error # NoError
               THEN /\ Throw(dialogObject.error)
                    /\ run' = [run EXCEPT !.clean = FALSE]
                    /\ statementCounter' = CounterAfterThrow(statementCounter)
               ELSE /\ statementCounter' = NextCounter(statementCounter)
                    /\ stack' = [stack EXCEPT ![Depth] =
                           [@ EXCEPT !.pc = IF dialogObject.commands = <<>>
                                            THEN "displayDialog" ELSE "executeCommands",
                                     !.obj = dialogObject, !.ci = 1,
                                     !.i = statementCounter]]
                    /\ UNCHANGED <<outcome, run>>

\* executeCommands, lines 358-359: the callback of the command at ci
executeCommands ==
    /\ stack # <<>> /\ Top.pc = "executeCommands"
    /\ UNCHANGED <<heap, merged>>
    /\ LET command == Top.obj.commands[Top.ci]
           callback == CommandValue(command)
           back == [stack EXCEPT ![Depth].pc = "builtin"]
           reentered == [back EXCEPT ![Depth].re = @ + 1]
           called == Append(log, [e |-> "callback", d |-> Depth,
                                  command |-> command, callback |-> callback])
       IN IF ~IsFunction(callback)
          THEN /\ stack' = back
               /\ UNCHANGED <<statements, statementCounter, config, log, outcome, run>>
          ELSE /\ log' = called
               /\ CASE callback = "log" ->
                         /\ stack' = back
                         /\ UNCHANGED <<statements, statementCounter, config, outcome, run>>
                    [] callback \in {"showPrompt", "hidePrompt"} ->
                         /\ config' = [config EXCEPT
                                          !.showNextPrompt = (callback = "showPrompt")]
                         /\ stack' = back
                         /\ UNCHANGED <<statements, statementCounter, outcome, run>>
                    [] callback = "throw" ->
                         /\ Throw(HandlerError)
                         /\ run' = [run EXCEPT !.clean = FALSE]
                         /\ statementCounter' = CounterAfterHandlerThrow(statementCounter)
                         /\ UNCHANGED <<statements, config>>
                    [] callback = "next" ->
                         /\ IF Depth < MaxDepth
                            THEN stack' = Append(reentered, NewFrame("next"))
                                 /\ UNCHANGED outcome
                            ELSE Throw(RangeError)
                         /\ run' = [run EXCEPT !.clean = FALSE]
                         /\ UNCHANGED <<statements, statementCounter, config>>
                    [] callback = "start" ->
                         \* start(CallbackLabel): auto defaults to true
                         /\ statements' = ScriptAt(CallbackLabel)
                         /\ statementCounter' = 0
                         /\ IF Depth < MaxDepth
                            THEN stack' = Append(reentered, NewFrame("start"))
                                 /\ UNCHANGED outcome
                            ELSE Throw(RangeError)
                         /\ run' = [run EXCEPT !.clean = FALSE,
                                               !.label = CallbackLabel,
                                               !.bound = ScriptAt(CallbackLabel)]
                         /\ UNCHANGED config
    /\ UNCHANGED <<_characters, _script, registeredCommands, pre>>

\* executeCommands, lines 361-363: the built-in effect of the command at ci,
\* then the next command
builtin ==
    /\ stack # <<>> /\ Top.pc = "builtin"
    /\ UNCHANGED <<heap, merged>>
    /\ LET command == Top.obj.commands[Top.ci]
           applies == BuiltinApplies(command, CommandValue(command))
       IN /\ config' = IF applies
                       THEN [config EXCEPT !.showNextPrompt = BuiltinFlag(command)]
                       ELSE config
          /\ log' = Append(log, [e |-> "dispatched", d |-> Depth,
                                 command |-> command, builtin |-> applies])
          /\ stack' = [stack EXCEPT
                         ![Depth].ci = @ + 1,
                         ![Depth].pc = IF Top.ci + 1 > Len(Top.obj.commands)
                                       THEN "displayDialog" ELSE "executeCommands"]
    /\ UNCHANGED <<_characters, _script, statements, statementCounter,
                   registeredCommands, pre, outcome, run>>

\* the arguments of the deepMerge whose result displayDialog passes to vn()
\* (lines 377-384) or to pop() (lines 391-401)
DialogLayers(dialogObject) ==
    LET character == Character(dialogObject.who)
        options == IF character.dialogOptions = None THEN Object(<<>>)
                   ELSE character.dialogOptions[1]
    IN IF character.dialogType = "vn"
       THEN Layers(ConfigObject(config.vn),
                   Object(<<Property("name", Value(character.name)),
                            Property("sideImage", Object(<<
                                Property("name", Value(dialogObject.sideImage))>>))>>),
                   options)
       ELSE Layers(ConfigObject(config.pop),
                   Object(<<Property("name", Value(character.name)),
                            Property("position",
                                IF Truthy(character.position)
                                THEN String(character.position)
                                ELSE Field(ConfigObject(config.pop), "position")),
                            Property("sideImage", Object(<<
                                Property("name", Value(dialogObject.sideImage))>>))>>),
                   options)

\* displayDialog(dialogObject) and `return true`, lines 224-226 and 367-404.
\* The request logged is the call of vn() or pop(): the dialog type, the
\* text, the speaker, the side image, the value config.showNextPrompt has
\* when the dialog is drawn, and the layers whose deepMerge is the second
\* argument of the call.
displayDialog ==
    /\ stack # <<>> /\ Top.pc = "displayDialog"
    /\ UNCHANGED <<heap, merged>>
    /\ LET dialogObject == Top.obj
       IN IF dialogObject.statement = ""
          THEN UNCHANGED log
          ELSE log' = Append(log,
                   [e |-> "render", d |-> Depth,
                    type |-> IF Character(dialogObject.who).dialogType = "vn"
                             THEN "vn" ELSE "pop",
                    text |-> dialogObject.statement,
                    who |-> dialogObject.who,
                    sideImage |-> dialogObject.sideImage,
                    showNextPrompt |-> config.showNextPrompt,
                    layers |-> DialogLayers(dialogObject)])
    /\ Return(TRUE)
    /\ UNCHANGED <<_characters, _script, statements, statementCounter, config,
                   registeredCommands, pre, run>>

-----------------------------------------------------------------------------

Next ==
    \/ \E options \in InitInputs : init(options)
    \/ \E c \in CharacterInputs : characters(c)
    \/ \E r \in RegisterInputs : registerCommand(r[1], r[2])
    \/ \E a \in ArrayInputs, auto \in BOOLEAN : script([array |-> a], auto)
    \/ \E o \in LabelInputs, auto \in BOOLEAN : script([object |-> o], auto)
    \/ \E label \in StartInputs, auto \in BOOLEAN : start(label, auto)
    \/ callNext
    \/ next
    \/ executeCommands
    \/ builtin
    \/ displayDialog

Spec == Init /\ [][Next]_vars

-----------------------------------------------------------------------------
(* What the history variables say about the public call made last *)

\* no call is running: the public call made last has ended
Done == stack = <<>>

\* the events of kind e that the frame of the outermost next() logged
Events(e) == SelectSeq(log, LAMBDA x : x.e = e /\ x.d = 1)

\* the clear and render requests of the whole call, in order
Requests == SelectSeq(log, LAMBDA x : x.e \in {"clear", "render"})

\* a callback called back into next() or start() during the call
Reentered ==
    \E j \in DOMAIN log : log[j].e = "callback" /\ log[j].callback \in {"next", "start"}

Commands(events) == [j \in DOMAIN events |-> events[j].command]

\* the words at the front of s, each followed by a run of whitespace, from
\* left to right
RECURSIVE Words(_)
Words(s) ==
    LET n == WordRun(s, 1)
    IN IF n = 0 THEN <<>>
       ELSE <<SubSeq(s, 1, n)>> \o Words(Drop(s, n + SpaceRun(s, n + 1)))

\* the strings preSelectStatement can select from a statement
Selections(statement) ==
    IF statement.type = "array"
    THEN {statement.alts[j] : j \in DOMAIN statement.alts}
    ELSE {statement.statement}

IsPrefix(p, q) == Len(p) <= Len(q) /\ SubSeq(q, 1, Len(p)) = p

-----------------------------------------------------------------------------
(* C1..C10: script sequencing and command dispatch *)

\* C1: after a load with auto = false, while every call of next() has
\* returned and no callback has called back into next() or start(), the
\* k-th call of next(), k <= n, returns true, parses statement k-1 and
\* requests a clear and then the render of that statement (no render when
\* the statement has no text left); the call n+1, and any later one,
\* returns false and requests a clear and nothing else.
C1_InOrder ==
    (Done /\ pre.op = "next" /\ statements # None /\ ~run.auto /\ run.clean) =>
        LET n == Len(statements[1])
            k == run.calls
        IN IF k <= n
           THEN /\ k >= 1
                /\ outcome = Returned(TRUE)
                /\ Len(Events("parse")) = 1
                /\ Events("parse")[1].i = k - 1
                /\ Events("parse")[1].obj.originalStatement = statements[1][k]
                /\ statementCounter = k
                /\ Requests =
                     <<[e |-> "clear", d |-> 1]>> \o
                     (IF Events("parse")[1].obj.statement = "" THEN <<>>
                      ELSE Events("render"))
                /\ Events("parse")[1].obj.statement # "" =>
                      /\ Len(Events("render")) = 1
                      /\ Events("render")[1].text = Events("parse")[1].obj.statement
           ELSE /\ outcome = Returned(FALSE)
                /\ log = <<[e |-> "clear", d |-> 1]>>

\* C1 witness: the call after the last of three statements
C1_Witness ==
    /\ Done /\ pre.op = "next" /\ statements # None /\ ~run.auto /\ run.clean
    /\ Len(statements[1]) = 3 /\ run.calls = 4
    /\ outcome = Returned(FALSE)

\* C1 witness of the calls before it: the third statement is rendered by
\* the third call
C1_WitnessThird ==
    /\ Done /\ pre.op = "next" /\ statements # None /\ ~run.auto /\ run.clean
    /\ Len(statements[1]) = 3 /\ run.calls = 3
    /\ Len(Events("render")) = 1

\* the parse of the outermost next() threw
ParseThrew ==
    /\ Done /\ outcome.status = "threw"
    /\ log # <<>>
    /\ log[Len(log)].e = "parse" /\ log[Len(log)].d = 1
    /\ log[Len(log)].obj.error # NoError

\* C2 as claimed: when the parse fails during next(), the counter has been
\* incremented, so that the failed statement is consumed.
C2_Consumed ==
    (ParseThrew /\ pre.op = "next") =>
        statementCounter = pre.statementCounter + 1

\* C2 amended: when the parse fails during next(), the error reaches the
\* caller and the counter is unchanged: it still points at the failed
\* statement, which the next call of next() parses again.
C2_NotConsumed ==
    (ParseThrew /\ pre.op = "next") =>
        /\ outcome.error \in {ExpressionNotFound, TypeError}
        /\ statementCounter = pre.statementCounter
        /\ statements = pre.statements
        /\ ~Exhausted(statements, statementCounter)
        /\ statements[1][statementCounter + 1] = log[Len(log)].obj.originalStatement
        /\ Events("render") = <<>>

\* C2 witness: the parse of a statement that is followed by another failed
C2_Witness ==
    /\ ParseThrew /\ pre.op = "next"
    /\ statementCounter + 1 < Len(statements[1])
    /\ outcome.error = ExpressionNotFound

\* C3 as claimed: next() processes position k of the sequence that the
\* label started last has now in the label table.
C3_LastWriteWins ==
    (/\ Done /\ pre.op = "next" /\ ~Reentered
     /\ run.label # Undefined /\ run.label \in DOMAIN _script
     /\ run.bound # None
     /\ pre.statementCounter < Len(_script[run.label])) =>
        /\ Events("parse") # <<>>
        /\ Events("parse")[1].obj.originalStatement =
               _script[run.label][pre.statementCounter + 1]

\* C3 amended: next() processes position k of the sequence that the label
\* had when it was started, whatever script() has made of the label since;
\* the new content is used from the next start() of the label.
C3_BoundAtStart ==
    (Done /\ pre.op = "next" /\ ~Reentered /\ run.label # Undefined) =>
        /\ statements = run.bound
        /\ (run.bound # None /\ pre.statementCounter < Len(run.bound[1])) =>
              /\ Events("parse") # <<>>
              /\ Events("parse")[1].obj.originalStatement =
                     run.bound[1][pre.statementCounter + 1]

\* C3 witness: the label was redefined after its start, the two sequences
\* differ at the position of the counter, and next() has processed it
C3_Witness ==
    /\ Done /\ pre.op = "next" /\ ~Reentered /\ outcome = Returned(TRUE)
    /\ run.label \in DOMAIN _script /\ run.bound # None
    /\ pre.statementCounter >= 1
    /\ pre.statementCounter < Len(_script[run.label])
    /\ _script[run.label][pre.statementCounter + 1] #
           run.bound[1][pre.statementCounter + 1]

\* C4: a call of next() made by the callback of a command of the statement
\* parsed at counter i finds the counter past i, and the first such call
\* finds it at i+1: it processes the statement at i+1 (or finds the
\* sequence exhausted), never the statement at i.
C4_PostIncrement ==
    \A j \in 2..Depth :
        stack[j].via = "next" =>
            /\ IF stack[j].pc = "next"
               THEN statementCounter > stack[j - 1].i
               ELSE stack[j].i > stack[j - 1].i
            /\ stack[j - 1].re = 1 =>
                  IF stack[j].pc = "next"
                  THEN statementCounter = stack[j - 1].i + 1
                  ELSE stack[j].i = stack[j - 1].i + 1

\* C4 witness: the inner call has parsed the statement that follows the
\* one of the outer call
C4_Witness ==
    /\ Depth >= 2
    /\ stack[2].via = "next" /\ stack[2].pc # "next"
    /\ stack[2].i = stack[1].i + 1
    /\ stack[2].obj.originalStatement = statements[1][stack[1].i + 2]

\* C4 witness of the exhaustion: the inner call is about to find that no
\* statement is left
C4_WitnessExhausted ==
    /\ Depth >= 2
    /\ stack[Depth].via = "next" /\ stack[Depth].pc = "next"
    /\ Exhausted(statements, statementCounter)

C5_WitnessAuto ==
    /\ Done /\ pre.op = "start" /\ pre.arg = "missing" /\ pre.auto
    /\ pre.statements # None

\* C6: next() when the counter is at or past the end of the sequence
\* requests a clear and nothing else, returns false, dispatches no command
\* and leaves the counter and the sequence as they were, so that the same
\* holds of the next call.
C6_ExhaustedClears ==
    (/\ Done /\ pre.op = "next" /\ pre.statements # None
     /\ pre.statementCounter >= Len(pre.statements[1])) =>
        /\ outcome = Returned(FALSE)
        /\ log = <<[e |-> "clear", d |-> 1]>>
        /\ statementCounter = pre.statementCounter
        /\ statements = pre.statements

\* C6 witness: next() after the last statement of a sequence
C6_Witness ==
    /\ Done /\ pre.op = "next" /\ pre.statements # None
    /\ Len(pre.statements[1]) >= 1
    /\ pre.statementCounter = Len(pre.statements[1])
    /\ outcome = Returned(FALSE)

\* C6 witness of the empty sequence
C6_WitnessEmpty ==
    /\ Done /\ pre.op = "next" /\ pre.statements = Some(<<>>)
    /\ outcome = Returned(FALSE)

\* the callbacks of these commands return without calling next() or start()
Benign(commands) ==
    \A j \in DOMAIN commands :
        CommandValue(commands[j]) \notin {"throw", "next", "start"}

\* C7: next() on a statement made of registered commands only (whose
\* callbacks return) returns true, increments the counter, dispatches the
\* commands in order, looks no character up and requests no render.
C7_CommandsOnly ==
    (/\ Done /\ pre.op = "next" /\ Events("parse") # <<>>
     /\ Events("parse")[1].obj.error = NoError
     /\ Events("parse")[1].obj.statement = ""
     /\ Events("parse")[1].obj.commands # <<>>
     /\ Benign(Events("parse")[1].obj.commands)) =>
        LET obj == Events("parse")[1].obj
        IN /\ outcome = Returned(TRUE)
           /\ statementCounter = pre.statementCounter + 1
           /\ Commands(Events("dispatched")) = obj.commands
           /\ obj.who = Undefined
           /\ obj.expression = Undefined
           /\ obj.sideImage = Undefined
           /\ \A j \in DOMAIN log : log[j].e # "render"

\* C7 witness: a statement of two commands, one with a callback
C7_Witness ==
    /\ Done /\ pre.op = "next" /\ Events("parse") # <<>>
    /\ Events("parse")[1].obj.statement = ""
    /\ Events("parse")[1].obj.commands = <<"enableNextPrompt", "sayHi">>
    /\ Commands(Events("callback")) = <<"sayHi">>
    /\ outcome = Returned(TRUE)

\* C8: the commands of every parsed statement are the longest run of
\* registered command names among the words at its front, in their order
\* in the text, and the callbacks are invoked and the commands dispatched
\* in that order, wherever the commands are in the command table.
C8_TextOrder ==
    /\ \A j \in DOMAIN log :
          log[j].e = "parse" =>
              \E src \in Selections(log[j].obj.originalStatement) :
                  LET w == Words(src)
                      c == log[j].obj.commands
                  IN /\ IsPrefix(c, w)
                     /\ \A k \in DOMAIN c : c[k] \in CommandKeys
                     /\ Len(c) < Len(w) => w[Len(c) + 1] \notin CommandKeys
    /\ (Done /\ outcome.status = "returned" /\ Events("parse") # <<>>) =>
          LET c == Events("parse")[1].obj.commands
          IN /\ Commands(Events("dispatched")) = c
             /\ Commands(Events("callback")) =
                    SelectSeq(c, LAMBDA x : IsFunction(CommandValue(x)))

\* the position of a command in the command table
Registration(command) ==
    CHOOSE j \in DOMAIN registeredCommands : registeredCommands[j].key = command

\* C8 witness: two commands with callbacks, dispatched in the order of the
\* text, which is not the order of the command table
C8_Witness ==
    /\ Done /\ outcome.status = "returned" /\ Events("parse") # <<>>
    /\ Events("parse")[1].obj.commands = <<"sayHi", "disableNextPrompt">>
    /\ Commands(Events("callback")) = <<"sayHi", "disableNextPrompt">>
    /\ Registration("disableNextPrompt") < Registration("sayHi")

\* C9: when the dispatch of a built-in command is over, config.showNextPrompt
\* has the value of the built-in effect (false for disableNextPrompt, true
\* for enableNextPrompt), whatever the callback registered under the name
\* did before.
C9_BuiltinAfterCallback ==
    (/\ stack # <<>>
     /\ Top.pc \in {"executeCommands", "displayDialog"}
     /\ Top.ci > 1) =>
        LET command == Top.obj.commands[Top.ci - 1]
        IN /\ command = "disableNextPrompt" => ~config.showNextPrompt
           /\ command = "enableNextPrompt" => config.showNextPrompt

\* C9 witness: the callback registered under disableNextPrompt has set the
\* flag, and the built-in effect has cleared it
C9_Witness ==
    /\ stack # <<>>
    /\ Top.pc \in {"executeCommands", "displayDialog"}
    /\ Top.ci > 1
    /\ Top.obj.commands[Top.ci - 1] = "disableNextPrompt"
    /\ Len(log) >= 2
    /\ log[Len(log) - 1].e = "callback"
    /\ log[Len(log) - 1].command = "disableNextPrompt"
    /\ log[Len(log) - 1].callback = "showPrompt"
    /\ ~config.showNextPrompt

\* the built-in effect of disableNextPrompt is logged at j
Lowered(j) ==
    log[j].e = "dispatched" /\ log[j].builtin /\ log[j].command = "disableNextPrompt"

\* config.showNextPrompt is set at j: by enableNextPrompt, or by a callback
Raised(j) ==
    \/ log[j].e = "dispatched" /\ log[j].builtin /\ log[j].command = "enableNextPrompt"
    \/ log[j].e = "callback" /\ log[j].callback = "showPrompt"

\* a render that follows the dispatch of disableNextPrompt, with nothing
\* between them that sets the flag, finds it false
PromptOffAtRender ==
    \A p \in DOMAIN log :
        (/\ log[p].e = "render"
         /\ \E q \in 1..(p - 1) :
               Lowered(q) /\ \A r \in (q + 1)..(p - 1) : ~Raised(r)) =>
            ~log[p].showNextPrompt

\* the flag goes from false to true only by the built-in effect of
\* enableNextPrompt, by a callback that sets it, or by init()
PromptRaisedExplicitly ==
    (~config.showNextPrompt /\ config'.showNextPrompt) =>
        \/ /\ stack # <<>> /\ Top.pc = "builtin"
           /\ Top.obj.commands[Top.ci] = "enableNextPrompt"
        \/ /\ stack # <<>> /\ Top.pc = "executeCommands"
           /\ CommandValue(Top.obj.commands[Top.ci]) = "showPrompt"
        \/ /\ stack = <<>> /\ pre'.op = "init"

\* C10: config.showNextPrompt is false when a statement with a leading
\* disableNextPrompt is rendered, the commands being dispatched before the
\* render, and it stays false from then on until enableNextPrompt is
\* dispatched or the configuration is set by a callback or by init().
C10_PromptOff == []PromptOffAtRender /\ [][PromptRaisedExplicitly]_vars

\* C10 witness: the flag was true, the statement starts with
\* disableNextPrompt, and it is rendered with the flag false
C10_Witness ==
    /\ Done /\ pre.op = "next" /\ pre.config.showNextPrompt
    /\ Events("parse") # <<>>
    /\ Events("parse")[1].obj.commands # <<>>
    /\ Events("parse")[1].obj.commands[1] = "disableNextPrompt"
    /\ Events("render") # <<>>
    /\ ~Events("render")[1].showNextPrompt

\* C10 witness of the later statements: a statement without commands is
\* rendered with the flag still false
C10_WitnessLater ==
    /\ Done /\ pre.op = "next" /\ ~pre.config.showNextPrompt
    /\ Events("parse") # <<>>
    /\ Events("parse")[1].obj.commands = <<>>
    /\ Events("render") # <<>>
    /\ ~Events("render")[1].showNextPrompt

-----------------------------------------------------------------------------
(* The parser on its own: parse(statement, false) called by the caller,   *)
(* over registries that characters() and registerCommand() have filled     *)

\* the dialogOptions of the character t of the demo; RED is a colour of
\* KAPLAY, kept as its name
TomOptions ==
    Object(<<Property("dialogText", Object(<<
                 Property("letterSpacing", Number(10)),
                 Property("color", String("RED"))>>))>>)

\* the character t of the demo
Tom ==
    [key |-> "t", name |-> "Tom", expressions |-> Some([happy |-> "skuller"]),
     defaultExpression |-> "happy", dialogType |-> "vn",
     position |-> Undefined, dialogOptions |-> Some(TomOptions)]

\* a character whose default expression is not one of its expressions
Ghost ==
    [key |-> "g", name |-> "Ghost", expressions |-> Some([sad |-> "ghosty"]),
     defaultExpression |-> "happy", dialogType |-> Undefined,
     position |-> Undefined, dialogOptions |-> None]

\* a character that has a name only, as the narrator has a dialog type only
Mute ==
    [key |-> "m", name |-> "Mute", expressions |-> None,
     defaultExpression |-> Undefined, dialogType |-> Undefined,
     position |-> Undefined, dialogOptions |-> None]

ParseCharacterInputs == {<<Robot, Tom>>, <<Ghost>>, <<Mute>>}

ParseRegisterInputs == {<<"sayHi", "log">>}

ParseStatementInputs ==
    {Str("Hello world"), Str(""), Str("rob Hi"), Str("a:b"), Str("r"),
     Str("narrator Hi"), Str(" r Hi"),
     Str("r Hi"), Str("r  Hi"), Str("t Hi"), Str("g Hi"), Str("m Hi"),
     Str("r:happy Hi"), Str("r:happy  Hi"), Str("r:happy t Hi"), Str("r:happy "),
     Str("g:happy Hi"), Str("g:sad Hi"),
     Str("r:angry Hi"), Str("r:constructor Hi"),
     Str("m:happy Hi"), Str("narrator:happy Hi"), Str("z:happy Hi"),
     Str("sayHi r Hi"), Str("sayHi"), Str("disableNextPrompt sayHi Quick"),
     Alts(<<"r Hi", "r:happy Hello">>), Obj("t:happy Hi")}

\* the caller calls parse(statement, false); `selected` is the string that
\* preSelectStatement selected
callParse(statement) ==
    /\ stack = <<>>
    /\ UNCHANGED <<heap, merged>>
    /\ pre' = Snapshot("parse", "", FALSE)
    /\ \E selected \in preSelectStatement(NewDialogObject(statement)) :
          LET dialogObject == Stages(selected)
          IN /\ config' = ConfigAfterParse(config, dialogObject)
             /\ log' = <<[e |-> "parse", d |-> 1, i |-> statementCounter,
                          obj |-> dialogObject, selected |-> selected.statement]>>
             /\ outcome' = IF dialogObject.error # NoError
                           THEN Threw(dialogObject.error)
                           ELSE Returned(FALSE)
    /\ UNCHANGED <<_characters, _script, statements, statementCounter,
                   registeredCommands, stack, run>>

ParseNext ==
    \/ \E c \in ParseCharacterInputs : characters(c)
    \/ \E r \in ParseRegisterInputs : registerCommand(r[1], r[2])
    \/ \E statement \in ParseStatementInputs : callParse(statement)

ParseSpec == Init /\ [][ParseNext]_vars

-----------------------------------------------------------------------------
(* C11..C16: the parser *)

\* the call made last is parse(statement, false)
Parsed == Done /\ pre.op = "parse" /\ log # <<>>

\* the string it selected and the dialog object it returned, or had built
\* when it threw
Selected == log[1].selected
Intent == log[1].obj

\* the first word of s is a registered command
StartsWithCommand(s) ==
    WordRun(s, 1) >= 1 /\ SubSeq(s, 1, WordRun(s, 1)) \in CommandKeys

\* s starts with the key of a registered character and a space
StartsWithKey(s) ==
    \E k \in CharacterKeys : StartsWith(s, k \o " ")

\* s is the word k, a colon, the token e without whitespace, whitespace, and
\* the text T, which does not start with whitespace
IsColonForm(s, k, e, T) ==
    /\ Len(k) >= 1 /\ WordRun(k, 1) = Len(k)
    /\ Len(e) >= 1 /\ NonSpaceRun(e, 1) = Len(e)
    /\ (T = "" \/ CharAt(T, 1) \notin Whitespace)
    /\ \E w \in 1..Len(s) :
          LET gap == SubSeq(s, Len(k) + Len(e) + 2, Len(k) + Len(e) + 1 + w)
          IN /\ Len(gap) = w /\ SpaceRun(gap, 1) = w
             /\ s = k \o ":" \o e \o gap \o T

\* the speaker and the expression of a statement in colon form
ColonSpeaker(s) == SubSeq(s, 1, WordRun(s, 1))
ColonExpression(s) ==
    SubSeq(s, WordRun(s, 1) + 2, WordRun(s, 1) + 1 + NonSpaceRun(s, WordRun(s, 1) + 2))

\* the fields of a dialog object that a caller of parse() can tell apart
Result(dialogObject) ==
    [who |-> dialogObject.who, expression |-> dialogObject.expression,
     sideImage |-> dialogObject.sideImage,
     text |-> IF dialogObject.error = NoError THEN dialogObject.statement ELSE "",
     error |-> dialogObject.error]

\* what the narrator says: s as it is
NarratorSays(dialogObject, s) ==
    /\ dialogObject.error = NoError
    /\ dialogObject.who = "narrator"
    /\ dialogObject.expression = Undefined
    /\ dialogObject.sideImage = Undefined
    /\ dialogObject.commands = <<>>
    /\ dialogObject.statement = s

\* C11 as claimed: a statement that starts neither with a registered
\* command, nor with the colon form, nor with a character key and a space
\* is parsed as the narrator saying the whole statement, with no
\* expression, no side image and no command.
C11_Narrator ==
    (/\ Parsed
     /\ ~StartsWithCommand(Selected) /\ ~ColonMatch(Selected)
     /\ ~StartsWithKey(Selected)) =>
        NarratorSays(Intent, Selected)

\* C11 amended: the same of every such statement that is not empty; the
\* empty statement is returned as it is, with no speaker at all.
C11_NarratorNonEmpty ==
    (/\ Parsed
     /\ ~StartsWithCommand(Selected) /\ ~ColonMatch(Selected)
     /\ ~StartsWithKey(Selected)) =>
        IF Selected # ""
        THEN NarratorSays(Intent, Selected)
        ELSE /\ outcome = Returned(FALSE)
             /\ Intent = [NewDialogObject(Intent.originalStatement) EXCEPT !.statement = ""]

\* C11 witness: a statement whose first word is the beginning of a
\* character key, with that character registered
C11_Witness ==
    /\ Parsed /\ Selected = "rob Hi" /\ "r" \in CharacterKeys
    /\ outcome = Returned(FALSE)
    /\ Intent.who = "narrator" /\ Intent.statement = "rob Hi"

\* C11 witness of the empty statement
C11_WitnessEmpty ==
    /\ Parsed /\ Selected = "" /\ Intent.who = Undefined

\* C12: a statement 'k:e T', k a registered character whose expressions
\* give e the asset a (k not being the name of a command), is parsed as k
\* saying T with the expression e and the side image a, T being what
\* follows the whitespace after e; this holds whatever character key T
\* starts with: the colon form comes first.
C12_ColonForm ==
    (/\ Parsed
     /\ ColonMatch(Selected) /\ ~StartsWithCommand(Selected)
     /\ ColonSpeaker(Selected) \in CharacterKeys
     /\ Character(ColonSpeaker(Selected)).expressions # None
     /\ ColonExpression(Selected) \in
            DOMAIN Character(ColonSpeaker(Selected)).expressions[1]) =>
        /\ outcome = Returned(FALSE)
        /\ Intent.who = ColonSpeaker(Selected)
        /\ Intent.expression = ColonExpression(Selected)
        /\ Intent.sideImage =
               Character(Intent.who).expressions[1][Intent.expression]
        /\ Intent.commands = <<>>
        /\ IsColonForm(Selected, Intent.who, Intent.expression, Intent.statement)

\* C12 witness: the text starts with the key of another registered
\* character, and the speaker is the one of the colon form
C12_Witness ==
    /\ Parsed /\ Selected = "r:happy t Hi" /\ outcome = Returned(FALSE)
    /\ "t" \in CharacterKeys
    /\ Intent.who = "r" /\ Intent.expression = "happy"
    /\ Intent.sideImage = "bean" /\ Intent.statement = "t Hi"

\* C12 witness of the whitespace: all of it is removed
C12_WitnessSpaces ==
    /\ Parsed /\ Selected = "r:happy  Hi" /\ outcome = Returned(FALSE)
    /\ Intent.who = "r" /\ Intent.statement = "Hi"

\* the statement selected is 'k T', k a registered character that has a
\* default expression (and is not the name of a command)
IsBareForm ==
    /\ Parsed
    /\ ~StartsWithCommand(Selected) /\ ~ColonMatch(Selected)
    /\ FirstKeyMatch(Selected) # None
    /\ Truthy(Character(FirstKeyMatch(Selected)[1]).defaultExpression)

\* the key k and the text T of a statement 'k T'
BareKey == FirstKeyMatch(Selected)[1]
BareText == Drop(Selected, Len(BareKey) + 1)

\* what parse() makes of 'k:e T', e the default expression of k
AsColonForm(T) ==
    CHOOSE dialogObject \in
        parse(Str(BareKey \o ":" \o Character(BareKey).defaultExpression \o " " \o T)) :
        TRUE

\* T without the whitespace at its front
TrimStart(T) == Drop(T, SpaceRun(T, 1))

\* C13 as claimed: the parse of 'k T' gives the speaker, the expression,
\* the side image and the text, or the failure, of the parse of 'k:e T',
\* e being the default expression of k, whatever the text T.
C13_SameAsColon ==
    IsBareForm => Result(Intent) = Result(AsColonForm(BareText))

\* C13 amended: the two parses give the same speaker, expression and side
\* image, or the same failure; the texts are the same when T does not
\* start with whitespace.  The bare-key form removes the key and one space
\* only, so that its text is T as written, while the colon form removes
\* all the whitespace at the front of T.
C13_SameAsColonButSpaces ==
    IsBareForm =>
        LET bare == Result(Intent)
            colon == Result(AsColonForm(BareText))
        IN /\ [bare EXCEPT !.text = ""] = [colon EXCEPT !.text = ""]
           /\ bare.error = NoError =>
                 /\ bare.text = BareText
                 /\ colon.text = TrimStart(BareText)
           /\ (BareText = "" \/ CharAt(BareText, 1) \notin Whitespace) => bare = colon

\* C13 witness: the default expression gives the side image
C13_Witness ==
    /\ IsBareForm /\ Selected = "r Hi"
    /\ Intent.expression = "happy" /\ Intent.sideImage = "bean"
    /\ Intent.statement = "Hi"

\* C13 witness of the same failure: the default expression is not one of
\* the expressions of the character
C13_WitnessFailure ==
    /\ IsBareForm /\ Selected = "g Hi"
    /\ outcome = Threw(ExpressionNotFound)
    /\ AsColonForm(BareText).error = ExpressionNotFound

\* C13 witness of the texts that differ
C13_WitnessSpaces ==
    /\ IsBareForm /\ Selected = "r  Hi"
    /\ Intent.statement = " Hi" /\ AsColonForm(BareText).statement = "Hi"

\* the parse captured an expression for a registered speaker whose
\* expressions do not have it
ExpressionUnknown ==
    /\ Parsed
    /\ Intent.who \in CharacterKeys
    /\ Intent.expression # Undefined
    /\ \/ Character(Intent.who).expressions = None
       \/ Intent.expression \notin DOMAIN Character(Intent.who).expressions[1]

\* C14 as claimed: when the expression captured, from the colon form or
\* from the default expression, is not in the expressions of the speaker,
\* a speaker without expressions such as the narrator included, the parse
\* fails with the error "Expression not found" and returns nothing.
C14_UnknownExpression ==
    ExpressionUnknown => outcome = Threw(ExpressionNotFound)

\* C14, the part that holds: the error is "Expression not found" when the
\* speaker has expressions and the name captured is neither one of them
\* nor the name of a property that every object inherits.
C14_UnknownExpressionOwn ==
    (/\ ExpressionUnknown
     /\ Character(Intent.who).expressions # None
     /\ Intent.expression \notin ObjectPrototype) =>
        outcome = Threw(ExpressionNotFound)

\* C14 reached: the expression of the colon form is unknown, and the
\* default expression is
C14_Witness ==
    /\ ExpressionUnknown /\ Selected = "r:angry Hi"
    /\ outcome = Threw(ExpressionNotFound)

\* C14 divergence: the narrator has no expressions, and the parse fails
\* with a TypeError
C14_NarratorTypeError ==
    /\ ExpressionUnknown /\ Selected = "narrator:happy Hi"
    /\ outcome = Threw(TypeError)

\* C14 divergence: the expression is the name of an inherited property,
\* and the parse returns it as the side image
C14_InheritedReturned ==
    /\ ExpressionUnknown /\ Selected = "r:constructor Hi"
    /\ outcome = Returned(FALSE) /\ Intent.sideImage = Inherited

\* C15 as claimed: the parse of a statement in colon form whose speaker is
\* not a registered character fails with the error "Character not found",
\* which is not the error of an unknown expression, and nothing is
\* rendered.
C15_UnknownCharacter ==
    (/\ Parsed
     /\ Intent.who # Undefined /\ Intent.who \notin CharacterKeys) =>
        /\ outcome = Threw(CharacterNotFound)
        /\ Events("render") = <<>>

\* C15, what the code does: the parse fails, with a TypeError
C15_TypeError ==
    (/\ Parsed
     /\ Intent.who # Undefined /\ Intent.who \notin CharacterKeys) =>
        /\ ColonMatch(Selected) \/ StartsWithCommand(Selected)
        /\ outcome = Threw(TypeError)
        /\ Events("render") = <<>>

\* C15 reached
C15_Witness ==
    /\ Parsed /\ Selected = "z:happy Hi"
    /\ Intent.who = "z" /\ outcome = Threw(TypeError)

\* the working string, once the commands are removed, names no speaker
NoSpeakerWritten ==
    LET s == parseCommands([NewDialogObject(Str("")) EXCEPT !.statement = Selected]).statement
    IN ~ColonMatch(s) /\ ~StartsWithKey(s)

\* C16 as claimed: a dialog object that parse returns with a text that is
\* not empty has a registered speaker, the narrator when none is written,
\* and has a side image exactly when it has an expression, the side image
\* being then what the expressions of the speaker give the expression.
C16_IntentInvariant ==
    (Parsed /\ outcome.status = "returned" /\ Intent.statement # "") =>
        /\ Intent.who \in CharacterKeys
        /\ NoSpeakerWritten => Intent.who = "narrator"
        /\ (Intent.sideImage # Undefined) <=> (Intent.expression # Undefined)
        /\ Intent.expression # Undefined =>
              /\ Character(Intent.who).expressions # None
              /\ Intent.expression \in DOMAIN Character(Intent.who).expressions[1]
              /\ Intent.sideImage =
                     Character(Intent.who).expressions[1][Intent.expression]

\* C16, the part that holds: the same, of the expressions that are not the
\* name of a property that every object inherits.
C16_IntentInvariantOwn ==
    (/\ Parsed /\ outcome.status = "returned" /\ Intent.statement # ""
     /\ Intent.expression \notin ObjectPrototype) =>
        /\ Intent.who \in CharacterKeys
        /\ NoSpeakerWritten => Intent.who = "narrator"
        /\ (Intent.sideImage # Undefined) <=> (Intent.expression # Undefined)
        /\ Intent.expression # Undefined =>
              /\ Character(Intent.who).expressions # None
              /\ Intent.expression \in DOMAIN Character(Intent.who).expressions[1]
              /\ Intent.sideImage =
                     Character(Intent.who).expressions[1][Intent.expression]

\* C16 divergence: the side image is not an asset of the character
C16_InheritedSideImage ==
    /\ Parsed /\ outcome.status = "returned" /\ Selected = "r:constructor Hi"
    /\ Intent.sideImage = Inherited

-----------------------------------------------------------------------------
(* deepMerge on its own: the layers are object literals of the caller,     *)
(* deepMerge is called on them as displayDialog, pop and vn call it, and   *)
(* the result is written to afterwards, as vn writes                       *)
(* conf.dialogText.options.width (line 626)                                *)

\* a tree of default values, with a list
TreeDefaults ==
    Object(<<Property("position", String("topleft")),
             Property("sideImage",
                 Object(<<Property("options", Object(<<Property("width", Number(60))>>))>>)),
             Property("tags", Array(<<String("a"), Object(<<Property("id", Number(1))>>)>>)),
             Property("textBox", Object(<<Property("width", Number(450))>>)),
             Property("doTween", Boolean(TRUE))>>)

\* the object that displayDialog builds (lines 393-399), with a list and
\* with a scalar where the defaults have an object
TreeCharacter ==
    Object(<<Property("name", UndefinedValue),
             Property("position", String("center")),
             Property("sideImage", Object(<<Property("name", String("bean"))>>)),
             Property("tags", Array(<<String("b")>>)),
             Property("textBox", String("none"))>>)

\* options with an object where the defaults have a scalar or a list, and
\* with an object two levels down
TreeOptions ==
    Object(<<Property("doTween", Object(<<Property("duration", Number(1))>>)),
             Property("tags", Object(<<Property("id", Number(2))>>)),
             Property("sideImage",
                 Object(<<Property("options",
                     Object(<<Property("width", Number(120)),
                              Property("flip", Boolean(FALSE))>>))>>))>>)

TreeEmpty == Object(<<>>)

TreeInputs == {TreeDefaults, TreeCharacter, TreeOptions, TreeEmpty}

\* the arguments of deepMerge: two layers, as pop and vn pass, or three,
\* as displayDialog passes
LayerInputs ==
    {<<a, b>> : a \in TreeInputs, b \in TreeInputs} \cup
    {<<a, b, c>> : a \in TreeInputs, b \in TreeInputs, c \in TreeInputs}

MergeInit ==
    /\ Loaded
    /\ \E trees \in LayerInputs :
          LET args == Literals(<<>>, trees)
          IN /\ heap = args.heap
             /\ merged = [layers |-> args.values, before |-> trees,
                          result |-> None, written |-> 0]

\* deepMerge(...layers)
callDeepMerge ==
    /\ merged.result = None
    /\ LET r == deepMerge(heap, merged.layers)
       IN /\ heap' = r.heap
          /\ merged' = [merged EXCEPT !.result = Some(r.value)]
    /\ UNCHANGED <<_characters, _script, statements, statementCounter, config,
                   registeredCommands, stack, pre, log, outcome, run>>

\* the caller changes the object or the array at `at` of the result: it
\* sets a property, or pushes an item
writeResult(at) ==
    /\ merged.result # None /\ merged.written = 0
    /\ at \in Reachable(heap, merged.result[1])
    /\ heap' = IF heap[at].type = "object"
               THEN Set(heap, at, "width", Number(0))
               ELSE [heap EXCEPT ![at].entries = Append(@, Number(0))]
    /\ merged' = [merged EXCEPT !.written = at]
    /\ UNCHANGED <<_characters, _script, statements, statementCounter, config,
                   registeredCommands, stack, pre, log, outcome, run>>

MergeNext ==
    \/ callDeepMerge
    \/ \E at \in DOMAIN heap : writeResult(at)

MergeSpec == MergeInit /\ [][MergeNext]_vars

-----------------------------------------------------------------------------
(* C17, C18: deepMerge *)

\* the nodes that can be reached from the layers
LayerNodes ==
    UNION {Reachable(heap, merged.layers[j]) : j \in DOMAIN merged.layers}

\* C17: every layer passed to deepMerge is deep-equal to what it was
\* before the call, once deepMerge has returned and after any change made
\* to the result at any depth, the result sharing no object and no array
\* with a layer.
C17_NoMutation ==
    /\ \A j \in DOMAIN merged.layers :
          Read(heap, merged.layers[j]) = merged.before[j]
    /\ merged.result # None =>
          Reachable(heap, merged.result[1]) \cap LayerNodes = {}

\* C17 witness: an object two levels down in the result, which the last
\* layer alone has, is written to
C17_Witness ==
    /\ merged.before = <<TreeDefaults, TreeCharacter, TreeOptions>>
    /\ merged.written # 0 /\ merged.written # merged.result[1].at
    /\ \E j \in DOMAIN heap[merged.written].entries :
          heap[merged.written].entries[j] = Property("flip", Boolean(FALSE))
    /\ \E j \in DOMAIN heap[merged.written].entries :
          heap[merged.written].entries[j] = Property("width", Number(0))
    /\ Read(heap, merged.layers[3]) = TreeOptions

\* the keys of an object tree and the value of a key
Keys(tree) == {tree.entries[j].key : j \in DOMAIN tree.entries}
ValueOf(tree, key) ==
    tree.entries[CHOOSE j \in DOMAIN tree.entries : tree.entries[j].key = key].value

\* r is the merge of the object trees a and b
RECURSIVE IsMerge(_, _, _)
IsMerge(r, a, b) ==
    /\ r.type = "object"
    /\ Keys(r) = Keys(a) \cup Keys(b)
    /\ Len(r.entries) = Cardinality(Keys(r))
    /\ \A k \in Keys(r) :
          IF k \notin Keys(b) THEN ValueOf(r, k) = ValueOf(a, k)
          ELSE IF k \notin Keys(a) THEN ValueOf(r, k) = ValueOf(b, k)
          ELSE IF ValueOf(a, k).type = "object" /\ ValueOf(b, k).type = "object"
          THEN IsMerge(ValueOf(r, k), ValueOf(a, k), ValueOf(b, k))
          ELSE IF ValueOf(a, k).type = "array" /\ ValueOf(b, k).type = "array"
          THEN ValueOf(r, k) = Array(ValueOf(a, k).entries \o ValueOf(b, k).entries)
          ELSE ValueOf(r, k) = ValueOf(b, k)

\* deepMerge has returned the merge of two layers, untouched yet
MergedTwo ==
    merged.result # None /\ merged.written = 0 /\ Len(merged.layers) = 2

\* C18: deepMerge(A, B) of two object trees has the keys of both; a key of
\* A alone has the value of A; a key of both whose values are objects has
\* their merge; a key of both whose values are lists has the list of A
\* followed by the list of B; any other key has the value of B.
C18_MergeRule ==
    MergedTwo =>
        IsMerge(Read(heap, merged.result[1]), merged.before[1], merged.before[2])

\* C18 witness: a list after a list, an object merged in an object, a
\* scalar in the place of an object, and a key of A alone
C18_Witness ==
    /\ MergedTwo /\ merged.before = <<TreeDefaults, TreeCharacter>>
    /\ LET r == Read(heap, merged.result[1])
       IN /\ ValueOf(r, "tags") =
                 Array(<<String("a"), Object(<<Property("id", Number(1))>>), String("b")>>)
          /\ ValueOf(r, "sideImage") =
                 Object(<<Property("options", Object(<<Property("width", Number(60))>>)),
                          Property("name", String("bean"))>>)
          /\ ValueOf(r, "textBox") = String("none")
          /\ ValueOf(r, "doTween") = Boolean(TRUE)

\* C18 witness of the kinds that differ: an object in the place of a list
C18_WitnessKinds ==
    /\ MergedTwo /\ merged.before = <<TreeDefaults, TreeOptions>>
    /\ ValueOf(Read(heap, merged.result[1]), "tags") =
           Object(<<Property("id", Number(2))>>)

-----------------------------------------------------------------------------
(* The configuration of a dialog: init() with options for a dialog type,   *)
(* characters with a position and with dialogOptions, and a script that    *)
(* makes each of them speak                                                 *)

\* the dialogOptions of README.md, lines 181-188, with a position that
\* differs from the shorthand and an option three levels down
PatOptions ==
    Object(<<Property("position", String("center")),
             Property("doTween", Boolean(FALSE)),
             Property("dialogText", Object(<<
                 Property("color", String("RED")),
                 Property("options", Object(<<Property("size", Number(30))>>))>>))>>)

\* a character with the shorthand and with dialogOptions, README.md lines
\* 172-190
Pat ==
    [key |-> "p", name |-> "Pat", expressions |-> Some([happy |-> "bean"]),
     defaultExpression |-> "happy", dialogType |-> "pop",
     position |-> "topright", dialogOptions |-> Some(PatOptions)]

\* a character with the shorthand only
Quin ==
    [key |-> "q", name |-> "Quin", expressions |-> None,
     defaultExpression |-> Undefined, dialogType |-> Undefined,
     position |-> "bot", dialogOptions |-> None]

\* a character of the vn type with the shorthand
Vera ==
    [key |-> "v", name |-> Undefined, expressions |-> None,
     defaultExpression |-> Undefined, dialogType |-> "vn",
     position |-> "top", dialogOptions |-> None]

DisplayCharacterInputs == {<<Robot, Tom>>, <<Pat, Quin, Vera>>}

DisplayInitInputs ==
    {[showNextPrompt |-> FALSE, pop |-> "ReadmePop"],
     [vn |-> "BigSideImage"],
     [pop |-> "PopDefaults", vn |-> "VnDefaults"],
     [pop |-> "RoundedPop"]}

SeqSpeakers ==
    <<Str("p Hi"), Str("disableNextPrompt q Hi"), Str("r:happy Hi"),
      Str("t Hi"), Str("v Hi"), Str("Hello")>>

DisplayNext ==
    \/ \E options \in DisplayInitInputs : init(options)
    \/ \E c \in DisplayCharacterInputs : characters(c)
    \/ \E auto \in BOOLEAN : script([array |-> SeqSpeakers], auto)
    \/ callNext
    \/ next
    \/ executeCommands
    \/ builtin
    \/ displayDialog

DisplaySpec == Init /\ [][DisplayNext]_vars

-----------------------------------------------------------------------------
(* C19, C20: the configuration of a dialog *)

\* the options set in a tree: the paths of its scalars, each with its value
RECURSIVE Leaves(_)
Leaves(tree) ==
    IF tree.type = "object"
    THEN UNION {{<<<<tree.entries[j].key>> \o l[1], l[2]>> :
                    l \in Leaves(tree.entries[j].value)} : j \in DOMAIN tree.entries}
    ELSE IF tree.type = "array" THEN {}
    ELSE {<<<<>>, tree>>}

\* the tree sets nothing at the path: it has nothing there, and only
\* objects, if anything, on the way
NotSet(tree, path) ==
    \A k \in 1..Len(path) :
        LET v == At(tree, SubSeq(path, 1, k))
        IN v.type = "undefined" \/ (k < Len(path) /\ v.type = "object")

\* the dialogOptions of a character, as an object tree
OptionsOf(character) ==
    IF character.dialogOptions = None THEN Object(<<>>)
    ELSE character.dialogOptions[1]

\* what displayDialog writes itself, whatever the character: the name of
\* the speaker and of the side image
PerStatement == {<<"name">>, <<"sideImage", "name">>}

\* the configuration passed to pop() or vn() in the request
Handed(request) == deepMergeTrees(request.layers)

\* the request follows the precedence for the character who speaks
Composed(request) ==
    LET character == Character(request.who)
        defaults == ConfigObject(config[request.type])
        options == OptionsOf(character)
        shorthand == request.type = "pop" /\ Truthy(character.position)
        conf == Handed(request)
    IN /\ \A l \in Leaves(options) : At(conf, l[1]) = l[2]
       /\ (shorthand /\ NotSet(options, <<"position">>)) =>
              At(conf, <<"position">>) = String(character.position)
       /\ \A l \in Leaves(defaults) :
              (/\ NotSet(options, l[1])
               /\ l[1] \notin PerStatement
               /\ l[1] = <<"position">> => ~shorthand) =>
                  At(conf, l[1]) = l[2]

\* C19: in every request to render a statement of next(), each scalar
\* option set in the dialogOptions of the speaker has the value set there;
\* the position is the shorthand of the speaker when the dialogOptions set
\* none (for the pop type, the only one with a position); every option of
\* the defaults of the dialog type that neither sets has its default value.
C19_Precedence ==
    \A j \in DOMAIN log : log[j].e = "render" => Composed(log[j])

\* C19 witness: Pat speaks.  The position of the dialogOptions is handed,
\* not the shorthand and not the default; the text size is the one of the
\* dialogOptions and the line spacing beside it the default.
C19_Witness ==
    /\ ConfigObject(config.pop) = PopDefaults
    /\ \E j \in DOMAIN log :
          /\ log[j].e = "render" /\ log[j].who = "p" /\ log[j].type = "pop"
          /\ Character("p").position = "topright"
          /\ At(Handed(log[j]), <<"position">>) = String("center")
          /\ At(Handed(log[j]), <<"dialogText", "options", "size">>) = Number(30)
          /\ At(Handed(log[j]), <<"dialogText", "options", "lineSpacing">>) = Number(10)
          /\ At(Handed(log[j]), <<"textBox", "width">>) = Number(450)

\* C19 witness of the shorthand alone: Quin speaks at the bottom
C19_WitnessShorthand ==
    /\ ConfigObject(config.pop) = PopDefaults
    /\ \E j \in DOMAIN log :
          /\ log[j].e = "render" /\ log[j].who = "q"
          /\ At(Handed(log[j]), <<"position">>) = String("bot")
          /\ At(Handed(log[j]), <<"doTween">>) = Boolean(TRUE)

\* every default of a dialog type is in the configuration of the type,
\* unless the configuration sets something else in its place
DefaultsKept(object, defaults) ==
    \A l \in Leaves(defaults) :
        At(ConfigObject(object), l[1]) = l[2] \/ ~NotSet(ConfigObject(object), l[1])

\* C20: whatever options init() was called with, config.pop and config.vn
\* contain every built-in default that the options did not name.
C20_DefaultsKept ==
    /\ DefaultsKept(config.pop, PopDefaults)
    /\ DefaultsKept(config.vn, VnDefaults)

\* C20, what happens: after the init() of README.md, config.pop is the
\* object that was passed, and a dialog of a pop character is handed a
\* configuration with no textBox and no dialogText
C20_DefaultsLost ==
    /\ ConfigObject(config.pop) = ReadmePop
    /\ \E j \in DOMAIN log :
          /\ log[j].e = "render" /\ log[j].type = "pop"
          /\ At(Handed(log[j]), <<"position">>) = String("center")
          /\ At(Handed(log[j]), <<"textBox">>) = UndefinedValue
          /\ At(Handed(log[j]), <<"dialogText">>) = UndefinedValue

-----------------------------------------------------------------------------
(* C22, C23, C26: what the loads and next() do to the cursor *)

\* the step is the call script(s, auto) with an object of labels
DefinesLabels == stack = <<>> /\ pre'.op = "script" /\ pre'.arg = "object"

\* C22: a call script(m, auto) with an object of labels m gives every label
\* of m its sequence in _script and leaves every other label with the
\* sequence it had; statements, statementCounter, config, the characters
\* and the commands are unchanged, no next() is started whatever auto is,
\* and nothing is cleared or rendered.
C22_OnlyLabels ==
    [][DefinesLabels =>
          /\ \E m \in LabelInputs :
                /\ DOMAIN _script' = DOMAIN _script \cup DOMAIN m
                /\ \A label \in DOMAIN m : _script'[label] = m[label]
                /\ \A label \in DOMAIN _script \ DOMAIN m :
                      _script'[label] = _script[label]
          /\ UNCHANGED <<statements, statementCounter, config, _characters,
                         registeredCommands>>
          /\ stack' = <<>> /\ log' = <<>> /\ outcome' = Returned(FALSE)]_vars

\* C22 witness: `begin` is redefined with auto = true in the middle of a
\* sequence; `finish`, defined before, is as it was
C22_Witness ==
    /\ Done /\ pre.op = "script" /\ pre.arg = "object" /\ pre.auto
    /\ statements # None /\ statementCounter = 2 /\ pre.statementCounter = 2
    /\ DOMAIN _script = {"begin", "finish"}
    /\ _script["begin"] = SeqHello /\ _script["finish"] = SeqQuick
    /\ log = <<>>

\* the call made last is script(array, auto) or start(label, auto)
IsLoad == pre.op = "start" \/ (pre.op = "script" /\ pre.arg = "array")

\* the step is such a call
Loads ==
    /\ stack = <<>>
    /\ pre'.op = "start" \/ (pre'.op = "script" /\ pre'.arg = "array")

\* the step puts the counter at 0 and the new sequence in the place of the
\* active one, whatever they were
Discards ==
    /\ statementCounter' = 0
    /\ pre'.op = "start" => statements' = ScriptAt(pre'.arg)
    /\ pre'.op = "script" => \E a \in ArrayInputs : statements' = Some(a)
    /\ run'.bound = statements'

\* the sequence that the call made last has loaded
NewSequence == IF pre.op = "start" THEN ScriptAt(pre.arg) ELSE run.bound

\* the call has loaded a sequence that is not empty, with auto = true
LoadedAuto ==
    /\ Done /\ IsLoad /\ pre.auto
    /\ NewSequence # None /\ NewSequence # Some(<<>>)

\* the first statement that the call parsed is the first one of seq
FirstProcessed(seq) ==
    /\ Events("parse") # <<>>
    /\ Events("parse")[1].i = 0
    /\ Events("parse")[1].obj.originalStatement = seq[1][1]

\* C23 as claimed: script(array) and start(label) put the counter at 0 and
\* replace the active sequence in whatever state they are called; with
\* auto = true and a sequence that is not empty the call processes the
\* first statement and leaves the counter at 1.
C23_Discards ==
    /\ [][Loads => Discards]_vars
    /\ [](LoadedAuto => (FirstProcessed(NewSequence) /\ statementCounter = 1))

\* C23 amended: the same, the counter being left at 1 when the first
\* statement is parsed and no callback of its commands calls back into
\* next() or start(); it is left at 0 when the parse of the first
\* statement throws.
C23_DiscardsUnlessInterrupted ==
    /\ [][Loads => Discards]_vars
    /\ [](LoadedAuto =>
            /\ (pre.op = "start" \/ run.clean) => FirstProcessed(NewSequence)
            /\ run.clean => statementCounter = 1
            /\ ParseThrew => statementCounter = 0
            /\ (outcome.status = "threw" /\ ~ParseThrew /\ ~Reentered) =>
                   statementCounter = 1)

\* C23 witness: start(label, true) in the middle of another sequence
C23_Witness ==
    /\ LoadedAuto /\ pre.op = "start" /\ run.clean
    /\ pre.statements # None /\ pre.statements # statements
    /\ pre.statementCounter = 2
    /\ statementCounter = 1 /\ FirstProcessed(statements)

\* C23 witness of the exhausted state: script(array, false) after the end
\* of a sequence
C23_WitnessExhausted ==
    /\ Done /\ IsLoad /\ ~pre.auto /\ pre.op = "script"
    /\ pre.statements # None /\ pre.statementCounter = Len(pre.statements[1])
    /\ pre.statementCounter = 3
    /\ statementCounter = 0 /\ statements # None /\ log = <<>>

\* C23, where the claim fails: a callback of the first statement has called
\* next(), and the counter is past 1 when the load returns
C23_Reentered ==
    /\ LoadedAuto /\ Reentered /\ outcome.status = "returned"
    /\ statementCounter > 1

\* a sequence is loaded and the counter is in 0..length
CursorInRange ==
    statements # None =>
        statementCounter >= 0 /\ statementCounter <= Len(statements[1])

\* the step is the one of a running next() that parses the statement at
\* the counter and goes on to execute and display it
Advances ==
    /\ stack # <<>> /\ Top.pc = "next"
    /\ statements # None /\ statementCounter < Len(statements[1])
    /\ Len(stack') = Depth
    /\ stack'[Depth].pc \in {"executeCommands", "displayDialog"}

\* the step ends a running next() before it executes anything: `return
\* false`, or the error of parse()
EndsEarly == stack # <<>> /\ Top.pc = "next" /\ Len(stack') < Depth

\* the step ends a running next() with `return true`
ReturnsTrue == stack # <<>> /\ Top.pc = "displayDialog"

\* C26: whenever a sequence is loaded the counter is in 0..length.  The
\* counter changes only to 0, or by one in the step of a next() that finds
\* a statement at the counter and parses it; every next() that returns
\* true has made that step once, at the counter it recorded, and a next()
\* that returns false or whose parse throws leaves the counter alone.
C26_CursorBounds ==
    /\ []CursorInRange
    /\ [][statementCounter' # statementCounter =>
              \/ statementCounter' = 0
              \/ Advances /\ statementCounter' = statementCounter + 1]_vars
    /\ [][Advances => (statementCounter' = statementCounter + 1
                         /\ stack'[Depth].i = statementCounter)]_vars
    /\ [][EndsEarly => UNCHANGED statementCounter]_vars
    /\ [][ReturnsTrue => UNCHANGED statementCounter]_vars

\* C26 witness: next() is called with the counter at the length of the
\* sequence, three, and leaves it there
C26_Witness ==
    /\ Done /\ pre.op = "next" /\ statements # None
    /\ Len(statements[1]) = 3 /\ pre.statementCounter = 3
    /\ statementCounter = 3 /\ outcome = Returned(FALSE)

-----------------------------------------------------------------------------
(* C30: a command handler that throws *)

\* the step is the call of a handler that throws, line 359
HandlerThrows ==
    /\ stack # <<>> /\ Top.pc = "executeCommands"
    /\ outcome' = Threw(HandlerError)

\* the step is the first of a next() that finds a statement at the counter
ProcessesNext ==
    /\ stack # <<>> /\ Top.pc = "next"
    /\ statements # None /\ statementCounter < Len(statements[1])

\* the step is the call of next() by the program
CallsNext == stack = <<>> /\ stack' # <<>> /\ pre'.op = "next"

\* C30: when a handler throws, the counter stays where the increment of
\* line 217 left it (one past the statement of the command, if no handler
\* of that statement called back before), every running next() is
\* abandoned with that error, and the call ends with nothing rendered by
\* the next() whose handler threw nor by any that was waiting for it; the
\* call of next() that follows starts at that counter and parses the
\* statement there.
C30_ConsumedNotRendered ==
    /\ [][HandlerThrows =>
             /\ UNCHANGED <<statements, statementCounter>>
             /\ (Top.re = 0 => statementCounter = Top.i + 1)
             /\ stack' = <<>>
             /\ Len(log') = Len(log) + 1
             /\ log'[Len(log')].e = "callback"
             /\ \A d \in 1..Depth : stack[d].pc # "displayDialog"]_vars
    /\ [][CallsNext => UNCHANGED <<statements, statementCounter>>]_vars
    /\ [][ProcessesNext =>
             /\ Len(log') = Len(log) + 2
             /\ log'[Len(log')].e = "parse"
             /\ log'[Len(log')].i = statementCounter
             /\ log'[Len(log')].obj.originalStatement =
                    statements[1][statementCounter + 1]]_vars
    /\ [](Done /\ outcome = Threw(HandlerError) =>
             /\ log # <<>> /\ log[Len(log)].e = "callback"
             /\ log[Len(log)].callback = "throw"
             /\ \A j \in DOMAIN log : log[j].e = "render" =>
                    log[j].d > log[Len(log)].d)

\* C30 witness: next() is called at the first of three statements, the
\* handler of its command throws, the counter is one and nothing was
\* rendered
C30_Witness ==
    /\ Done /\ pre.op = "next" /\ outcome = Threw(HandlerError)
    /\ statements # None /\ Len(statements[1]) = 3
    /\ pre.statementCounter = 0 /\ statementCounter = 1
    /\ \A j \in DOMAIN log : log[j].e # "render"

-----------------------------------------------------------------------------
(* C28: the dialogs left on screen by a call of next() *)

\* the position in the requests of the last clear, 0 if there is none
LastClear(requests) ==
    LET clears == {j \in DOMAIN requests : requests[j].e = "clear"}
    IN IF clears = {} THEN 0 ELSE CHOOSE j \in clears : \A k \in clears : k <= j

\* the dialogs rendered during the call and not destroyed by a later
\* clear() of the call, lines 406-420
Showing == SubSeq(Requests, LastClear(Requests) + 1, Len(Requests))

\* the statements parsed during the call, in the order they were consumed
Consumed == SelectSeq(log, LAMBDA x : x.e = "parse")

\* the call of next() by the program has returned
NextReturned == Done /\ pre.op = "next" /\ outcome.status = "returned"

\* C28: when the call of next() by the program returns, at most one
\* dialog rendered during the call has not been followed by a clear, and
\* it is the dialog of the statement consumed last.
C28_OneDialog ==
    NextReturned =>
        /\ Len(Showing) <= 1
        /\ Len(Showing) = 1 =>
               /\ Consumed # <<>>
               /\ Showing[1].text = Consumed[Len(Consumed)].obj.statement

\* what the code does instead: next() returns with two dialogs rendered
\* after the last clear, the second one of a statement consumed earlier
C28_TwoDialogs ==
    /\ NextReturned /\ Reentered
    /\ Len(Showing) = 2
    /\ Showing[2].text = Consumed[1].obj.statement
    /\ Showing[1].text = Consumed[Len(Consumed)].obj.statement

-----------------------------------------------------------------------------
(* The exported parse(), called by the program between the other calls *)

\* the argument of executeCommands() in parse(): the dialog object itself,
\* line 242 (next() passes dialogObject.commands, line 220)
ExecuteArgument(dialogObject) == [type |-> "object", value |-> dialogObject]

\* commands.forEach is a function, line 357: arrays have it, a dialog
\* object has no such key and Object.prototype has none to inherit
HasForEach(argument) == argument.type = "array"

\* the caller calls parse(statement): execute defaults to true.  The error
\* of `commands.forEach(...)` on a value without forEach is a TypeError.
parseExecute(statement) ==
    /\ stack = <<>>
    /\ UNCHANGED <<heap, merged>>
    /\ pre' = Snapshot("parseExecute", "", FALSE)
    /\ \E selected \in preSelectStatement(NewDialogObject(statement)) :
          LET dialogObject == Stages(selected)
              argument == ExecuteArgument(dialogObject)
          IN /\ log' = <<[e |-> "parse", d |-> 1, i |-> statementCounter,
                          obj |-> dialogObject, selected |-> selected.statement]>>
             /\ IF dialogObject.error # NoError
                THEN /\ outcome' = Threw(dialogObject.error)
                     /\ stack' = <<>>
                ELSE IF ~HasForEach(argument)
                THEN /\ outcome' = Threw(TypeError)
                     /\ stack' = <<>>
                ELSE /\ outcome' = Running
                     /\ stack' = <<[NewFrame("caller") EXCEPT
                                       !.pc = IF argument.value = <<>>
                                              THEN "displayDialog" ELSE "executeCommands",
                                       !.obj = dialogObject, !.ci = 1,
                                       !.i = statementCounter]>>
    /\ UNCHANGED <<_characters, _script, statements, statementCounter, config,
                   registeredCommands, run>>

CallCharacterInputs == {<<Robot>>}

CallRegisterInputs == {<<"sayHi", "log">>}

CallInitInputs == {[showNextPrompt |-> FALSE]}

SeqCall == <<Str("r disableNextPrompt Hi"), Str("sayHi enableNextPrompt Hello sayHi"),
             Str("disableNextPrompt r Hi")>>

CallArrayInputs == {SeqCall}

CallStatementInputs ==
    {Str("Hello world"), Str("r disableNextPrompt Hi"), Str("disableNextPrompt r Hi"),
     Str("enableNextPrompt"), Str("sayHi enableNextPrompt Hello sayHi"),
     Str("sayHi! there"), Str("sayHi:happy Hi"), Str("sayHiya there"),
     Str("z:happy Hi")}

CallNext ==
    \/ \E options \in CallInitInputs : init(options)
    \/ \E c \in CallCharacterInputs : characters(c)
    \/ \E r \in CallRegisterInputs : registerCommand(r[1], r[2])
    \/ \E a \in CallArrayInputs : script([array |-> a], FALSE)
    \/ \E statement \in CallStatementInputs : callParse(statement)
    \/ \E statement \in CallStatementInputs : parseExecute(statement)
    \/ callNext
    \/ next
    \/ executeCommands
    \/ builtin
    \/ displayDialog

CallSpec == Init /\ [][CallNext]_vars

-----------------------------------------------------------------------------
(* C21, C27: what parse() does besides returning the dialog object *)

\* the step is a call of parse(statement, false) by the program
ParsesOnly == stack = <<>> /\ pre'.op = "parse"

\* C21: parse(statement, false) changes none of the counter, the active
\* sequence, the labels, the characters, the commands and the
\* configuration; it starts no call of next(), invokes no handler and
\* requests no clear and no render: all it leaves is the dialog object or
\* the error of the parse.
C21_ParseOnlyFrame ==
    [][ParsesOnly =>
          /\ UNCHANGED <<statementCounter, statements, _script, _characters,
                         registeredCommands, config>>
          /\ stack' = <<>>
          /\ Len(log') = 1 /\ log'[1].e = "parse"
          /\ outcome'.status \in {"returned", "threw"}]_vars

\* C21 witness: parse('disableNextPrompt r Hi', false) in the middle of a
\* sequence, with the prompt enabled: the command is collected and the
\* prompt stays enabled
C21_Witness ==
    /\ Done /\ pre.op = "parse" /\ outcome.status = "returned"
    /\ log[1].obj.commands = <<"disableNextPrompt">>
    /\ log[1].obj.who = "r"
    /\ config.showNextPrompt
    /\ statements # None /\ statementCounter = 1

\* the call of parse(statement) by the program has ended and the
\* statement parsed
ParsedToExecute ==
    /\ Done /\ pre.op = "parseExecute" /\ log # <<>>
    /\ log[1].obj.error = NoError

\* C27: parse(statement), for a statement that parses, returns without
\* raising, having dispatched the commands of the statement in order and
\* rendered the dialog when the text is not empty.
C27_ParseExecutes ==
    ParsedToExecute =>
        /\ outcome.status = "returned"
        /\ Commands(Events("dispatched")) = log[1].obj.commands
        /\ log[1].obj.statement # "" =>
               /\ Len(Events("render")) = 1
               /\ Events("render")[1].text = log[1].obj.statement

\* C27, what the code does: parse(statement) raises a TypeError for every
\* statement that parses, dispatches no command and renders nothing
C27_TypeError ==
    ParsedToExecute =>
        /\ outcome = Threw(TypeError)
        /\ Len(log) = 1
        /\ config = pre.config

\* parse('Hello world') has raised the TypeError
C27_WitnessTypeError ==
    /\ ParsedToExecute
    /\ log[1].obj.originalStatement = Str("Hello world")
    /\ log[1].obj.commands = <<>>
    /\ outcome = Threw(TypeError)

-----------------------------------------------------------------------------
(* C24, C25: the words parseCommands takes for commands *)

\* s without the k words at its front and the whitespace after each
RECURSIVE DropWords(_, _)
DropWords(s, k) ==
    IF k = 0 THEN s
    ELSE LET n == WordRun(s, 1)
         IN DropWords(Drop(s, n + SpaceRun(s, n + 1)), k - 1)

\* the texts parseDialog can leave of the string t: t itself, t without
\* its first token and the space after it (line 330), or t without its
\* first token and the run of whitespace after it (lines 310-313)
TextOf(t) ==
    LET n == NonSpaceRun(t, 1)
    IN {t, Drop(t, n + 1), Drop(t, n + SpaceRun(t, n + 1))}

\* the outermost next() has returned true
NextDone == Done /\ pre.op = "next" /\ outcome = Returned(TRUE)

\* C24: the commands of a parsed statement are the words at its front, in
\* order, up to the first word that is not a registered command; whatever
\* follows that word, registered command names included, is left in the
\* statement, of which the text is what remains after the speaker; and
\* next() dispatches the extracted commands and no other.
C24_FrontOnly ==
    \A j \in DOMAIN Consumed :
        LET obj == Consumed[j].obj
            k == Len(obj.commands)
        IN obj.error = NoError =>
             /\ \E s \in Selections(obj.originalStatement) :
                   /\ k <= Len(Words(s))
                   /\ obj.commands = SubSeq(Words(s), 1, k)
                   /\ \A c \in 1..k : obj.commands[c] \in CommandKeys
                   /\ k < Len(Words(s)) => Words(s)[k + 1] \notin CommandKeys
                   /\ obj.statement \in TextOf(DropWords(s, k))
             /\ NextDone => Commands(Events("dispatched")) = obj.commands

\* C24 witness: next() on 'r disableNextPrompt Hi' with the character r:
\* no command is extracted or dispatched, the text rendered is
\* 'disableNextPrompt Hi' and the prompt stays enabled
C24_Witness ==
    /\ NextDone
    /\ Consumed[1].obj.originalStatement = Str("r disableNextPrompt Hi")
    /\ Consumed[1].obj.who = "r"
    /\ Consumed[1].obj.commands = <<>>
    /\ Events("dispatched") = <<>>
    /\ Len(Events("render")) = 1
    /\ Events("render")[1].text = "disableNextPrompt Hi"
    /\ Events("render")[1].showNextPrompt
    /\ config.showNextPrompt

\* the first whitespace-delimited word of s
FirstWord(s) == SubSeq(s, 1, NonSpaceRun(s, 1))

\* C25: a command is extracted only when the whole first
\* whitespace-delimited word of the statement is a registered command
\* name; otherwise no command is recorded and the statement is left as it
\* is for the speaker to be looked up in.
C25_WholeWord ==
    \A j \in DOMAIN Consumed :
        LET obj == Consumed[j].obj
        IN \E s \in Selections(obj.originalStatement) :
              /\ obj.commands # <<>> => obj.commands[1] = FirstWord(s)
              /\ FirstWord(s) \notin CommandKeys =>
                     /\ obj.commands = <<>>
                     /\ obj.error = NoError => obj.statement \in TextOf(s)

\* C25, what the code does: parse('sayHi! there', false) with sayHi
\* registered records the command sayHi and leaves the text '! there'
C25_PrefixExtracted ==
    /\ Done /\ pre.op = "parse" /\ outcome.status = "returned"
    /\ log[1].obj.originalStatement = Str("sayHi! there")
    /\ log[1].obj.commands = <<"sayHi">>
    /\ log[1].obj.statement = "! there"

\* C25, what the code does: parse('sayHi:happy Hi', false) with sayHi
\* registered records the command sayHi and leaves the text ':happy Hi'
C25_PrefixExtractedColon ==
    /\ Done /\ pre.op = "parse" /\ outcome.status = "returned"
    /\ log[1].obj.originalStatement = Str("sayHi:happy Hi")
    /\ log[1].obj.commands = <<"sayHi">>
    /\ log[1].obj.statement = ":happy Hi"

\* a longer word that begins with a command name is not taken for it:
\* parse('sayHiya there', false) records no command
C25_LongerWordKept ==
    /\ Done /\ pre.op = "parse" /\ outcome.status = "returned"
    /\ "sayHi" \in CommandKeys
    /\ log[1].obj.originalStatement = Str("sayHiya there")
    /\ log[1].obj.commands = <<>>
    /\ log[1].obj.statement = "sayHiya there"

-----------------------------------------------------------------------------
(* C29: the merge of the defaults inside pop() and vn() *)

\* conf in pop() and vn(): deepMerge(config.pop, options), line 424, and
\* deepMerge(config.vn, options), line 583, for the options of the request
Effective(request) ==
    deepMergeTrees(<<ConfigObject(config[request.type]), Handed(request)>>)

\* the requests to render of the call
Renders == SelectSeq(log, LAMBDA x : x.e = "render")

\* the tree has an array somewhere
RECURSIVE HasArray(_)
HasArray(tree) ==
    \/ tree.type = "array"
    \/ /\ tree.type = "object"
       /\ \E j \in DOMAIN tree.entries : HasArray(tree.entries[j].value)

\* C29: the configuration pop() and vn() work with is the one displayDialog
\* handed them: merging it onto the defaults of the dialog type once more
\* changes nothing, whatever the defaults are.
C29_MergeOnce ==
    \A j \in DOMAIN Renders : Effective(Renders[j]) = Handed(Renders[j])

\* C29, what the code does: the second merge changes nothing as long as
\* the defaults of the dialog type hold no array
C29_MergeOnceWithoutArrays ==
    \A j \in DOMAIN Renders :
        ~HasArray(ConfigObject(config[Renders[j].type])) =>
            Effective(Renders[j]) = Handed(Renders[j])

\* C29, what the code does: with the radius of four corners in config.pop,
\* pop() is handed the four and works with eight
C29_ListDoubled ==
    /\ Renders # <<>>
    /\ Renders[1].type = "pop" /\ config.pop = "RoundedPop"
    /\ Len(At(Handed(Renders[1]), <<"textBox", "options", "radius">>).entries) = 4
    /\ Len(At(Effective(Renders[1]), <<"textBox", "options", "radius">>).entries) = 8

====
